---- MODULE Spec2Model ----
(***************************************************************************)
(* DamageScan (o4villegas/damagescan-v1): the CSV processing endpoint      *)
(* POST /api/csv/process of the API worker: parseCSVContent,               *)
(* validateCSVRow, the per-room calculation and the project aggregation.   *)
(*                                                                         *)
(* Number representation.  The worker computes in JavaScript doubles; the  *)
(* model computes the same expressions exactly, in fixed point:            *)
(*   - money            in 1/8000 dollar   (Dollars(n) = n * 8000)         *)
(*   - hours            in quarter hours   (1.25 h = 5)                    *)
(*   - moisture         in hundredths      (0.05 = 5, 0.95 = 95)           *)
(*   - class_multiplier in tenths          (1.3 = 13)                      *)
(*   - square feet, days, counts, rates in dollars: integers               *)
(*   - a quotient a / b is the pair [num |-> a, den |-> b]                 *)
(* With integer square feet and integer dollar rates every product below   *)
(* is exact in these units (UnitsExact states it).  Rounding of doubles is *)
(* outside the model.                                                      *)
(***************************************************************************)
EXTENDS Integers, Sequences, FiniteSets, TLC

VARIABLES
    upload,         \* the request of POST /api/csv/process: its Authorization header,
                    \* the userId the middleware sets on it, and the CSV file
    configurations, \* the rows of the table user_configurations, in order of their id
    dbAvailable,    \* whether the D1 database answers (FALSE: every statement throws)
    isDevelopment,  \* config.isDevelopment of the deployment
    call,           \* the latest request the application has served
    parsed,         \* the handler's { valid, invalid, errors }: <<>> until it has parsed
    response,       \* <<>> until POST /api/csv/process is answered, then <<the response>>
    callers,        \* the getConfiguration calls in progress, each at one of its awaits
    dbCall,         \* the latest DatabaseClient call made directly, and the table before it
    fileUpload,     \* the state hooks of the FileUpload component
    processFileRuns, \* the processFile runs in progress, each at one of its awaits
    timers,         \* the setTimeout callbacks of handleRetry that have not fired yet
    calculator,     \* the state hooks of the Calculator component
    pending         \* what Calculator waits for: configuration requests, processFile runs

\* the API worker and its table
apiVars == <<upload, configurations, dbAvailable, isDevelopment, call, parsed, response>>

\* callers of DatabaseClient
clientVars == <<callers, dbCall>>

\* the React components
uiVars == <<fileUpload, processFileRuns, timers, calculator, pending>>

vars == <<upload, configurations, dbAvailable, isDevelopment, call, parsed, response, callers, dbCall, fileUpload, processFileRuns, timers, calculator, pending>>

(***************************************************************************)
(* Bounds of the model                                                     *)
(***************************************************************************)
\* longest CSV body (number of lines after the header) of an upload
MaxRows == 3
\* in the single-row specification: how many cells of a row differ from the sample row
MaxDeviations == 2
\* most rows the table user_configurations holds
MaxConfigurations == 2
\* most getConfiguration calls in progress together
MaxCallers == 2
\* most processFile runs and retry timers of FileUpload pending together
MaxRuns == 2

(***************************************************************************)
(* Units                                                                   *)
(***************************************************************************)
Dollars(n) == n * 8000

\* x * p / 100 for a money amount x that is a multiple of 100 units
Pct(x, p) == (x \div 100) * p

\* Math.ceil(a / b) for b > 0
Ceil(a, b) == IF a % b = 0 THEN a \div b ELSE (a \div b) + 1

Quot(a, b) == [num |-> a, den |-> b]

RECURSIVE SumWithoutFirst(_)
\* a sum that leaves the first element out
SumWithoutFirst(s) ==
    IF Len(s) <= 1 THEN 0 ELSE SumWithoutFirst(SubSeq(s, 1, Len(s) - 1)) + s[Len(s)]

RECURSIVE SumSeq(_)
SumSeq(s) == IF s = <<>> THEN 0 ELSE SumSeq(SubSeq(s, 1, Len(s) - 1)) + s[Len(s)]

RECURSIVE MaxSeq(_)
\* Math.max(...s) of a non-empty list
MaxSeq(s) ==
    IF Len(s) = 1 THEN s[1]
    ELSE LET m == MaxSeq(SubSeq(s, 1, Len(s) - 1))
         IN  IF s[Len(s)] > m THEN s[Len(s)] ELSE m

RECURSIVE Flatten(_)
\* errors.push(...rowErrors) over all rows, in order
Flatten(ss) == IF ss = <<>> THEN <<>> ELSE ss[1] \o Flatten(Tail(ss))

RECURSIVE SelectByFlag(_, _)
\* the elements of s whose flag is TRUE, in order
SelectByFlag(s, keep) ==
    IF s = <<>> THEN <<>>
    ELSE (IF keep[1] THEN <<s[1]>> ELSE <<>>) \o SelectByFlag(Tail(s), Tail(keep))

(***************************************************************************)
(* CSV cells.  A cell of a numeric column is what parseFloat / parseInt    *)
(* reads from its text: a number, or NaN for blank or non-numeric text.    *)
(***************************************************************************)
NumCell(n) == [nan |-> FALSE, n |-> n]
NaNCell    == [nan |-> TRUE,  n |-> 0]

\* JavaScript `x || d` on a number: NaN and 0 are falsy
OrDefault(x, d) == IF x.nan \/ x.n = 0 THEN d ELSE x.n

\* v.trim().replace(/"/g, ''): the sample texts that change
TrimUnquote(s) ==
    CASE s = "  "     -> ""
      [] s = "\"\""   -> ""
      [] OTHER        -> s

\* s.toLowerCase() on the sample texts
ToLowerCase(s) ==
    CASE s = "Yes" -> "yes"
      [] s = "YES" -> "yes"
      [] s = "No"  -> "no"
      [] s = "Hardwood" -> "hardwood"
      [] s = "Maybe" -> "maybe"
      [] OTHER     -> s

\* The columns of requiredColumns that the handler reads after parsing, and the two
\* Yes/No columns ceiling_damage and wall_damage.
StringColumns ==
    {"claim_id", "room_id", "room_name", "generator_needed",
     "ceiling_damage", "wall_damage",
     "ceiling_materials", "wall_materials", "floor_materials"}

IntColumns == {"water_category", "water_class"}

FloatColumns ==
    {"room_temp_f", "room_humidity", "ceiling_damage_moisture",
     "wall_damage_moisture_bottom", "wall_damage_moisture_middle",
     "wall_damage_moisture_top", "wall_damage_sf",
     "floor_materials_moisture", "floor_damage_sf",
     "room_sf", "length_ft", "width_ft"}

requiredColumns == StringColumns \cup IntColumns \cup FloatColumns

\* headers.forEach(...): the type conversion of one cell
ParseCell(header, value) ==
    IF header \in FloatColumns THEN OrDefault(value, 0)
    ELSE IF header \in IntColumns THEN OrDefault(value, 2)
    ELSE TrimUnquote(value)

ParseRow(cells) == [h \in requiredColumns |-> ParseCell(h, cells[h])]

(***************************************************************************)
(* validateCSVRow                                                          *)
(***************************************************************************)
\* { row, field, message }; the optional value echoes row[field] and is left out
ValidationError(rowNumber, field, message) ==
    [row |-> rowNumber, field |-> field, message |-> message]

ErrIf(cond, err) == IF cond THEN <<err>> ELSE <<>>

requiredFields == <<"claim_id", "room_id", "room_name">>

moistureFields ==
    <<"ceiling_damage_moisture", "wall_damage_moisture_bottom",
      "wall_damage_moisture_middle", "wall_damage_moisture_top",
      "floor_materials_moisture">>

\* a range check that forgets the upper limit
BelowOnly(v, lo, hi) == v < lo

\* v < lo || v > hi
OutOfRange(v, lo, hi) == v < lo \/ v > hi

\* a moisture check that forgets the lower limit
MoistureAboveOnly(m) == m # 0 /\ m > 95

\* row[field] && (row[field] < 0.05 || row[field] > 0.95)
MoistureOutOfRange(m) == m # 0 /\ (m < 5 \/ m > 95)

validateCSVRow(row, rowNumber) ==
    Flatten([i \in 1..Len(requiredFields) |->
        ErrIf(row[requiredFields[i]] = "",
              ValidationError(rowNumber, requiredFields[i], "is required and cannot be empty"))])
    \o ErrIf(OutOfRange(row.water_category, 1, 3),
             ValidationError(rowNumber, "water_category", "water_category must be between 1-3"))
    \o ErrIf(OutOfRange(row.water_class, 1, 4),
             ValidationError(rowNumber, "water_class", "water_class must be between 1-4"))
    \o ErrIf(OutOfRange(row.room_sf, 50, 5000),
             ValidationError(rowNumber, "room_sf", "room_sf must be between 50-5000 square feet"))
    \o ErrIf(OutOfRange(row.room_temp_f, 60, 100),
             ValidationError(rowNumber, "room_temp_f", "room_temp_f must be between 60-100F"))
    \o ErrIf(OutOfRange(row.room_humidity, 20, 90),
             ValidationError(rowNumber, "room_humidity", "room_humidity must be between 20-90%"))
    \o Flatten([i \in 1..Len(moistureFields) |->
        ErrIf(MoistureOutOfRange(row[moistureFields[i]]),
              ValidationError(rowNumber, moistureFields[i], "must be between 0.05-0.95 (5%-95%)"))])

(***************************************************************************)
(* parseCSVContent.  upload.lines are the lines after the header; a blank  *)
(* line is <<>>, a data line is <<cells>>.                                 *)
(***************************************************************************)
\* csvContent.split('\n').filter(line => line.trim()), without the header
DataLines(file) == SelectSeq(file.lines, LAMBDA line : line # <<>>)

parseCSVContent(file) ==
    LET data    == DataLines(file)
        missing == requiredColumns \ file.headers
        \* data line k is lines[k] of the source, reported as row k + 1
        rowsOf  == [k \in 1..Len(data) |-> ParseRow(data[k][1])]
        rowErrs == [k \in 1..Len(data) |-> validateCSVRow(rowsOf[k], k + 1)]
        ok      == [k \in 1..Len(data) |-> rowErrs[k] = <<>>]
    IN  IF Len(data) < 1
        THEN [valid |-> <<>>, invalid |-> <<>>,
              errors |-> <<ValidationError(0, "file",
                  "CSV file must contain at least a header row and one data row")>>]
        ELSE IF missing # {}
        THEN [valid |-> <<>>, invalid |-> <<>>,
              errors |-> <<ValidationError(0, "headers", "Missing required columns")>>]
        ELSE [valid   |-> SelectByFlag(rowsOf, ok),
              invalid |-> SelectByFlag(rowsOf, [k \in 1..Len(data) |-> ~ok[k]]),
              errors  |-> Flatten(rowErrs)]

(***************************************************************************)
(* The configuration handed to the calculation                             *)
(***************************************************************************)
DEFAULT_CONFIGURATION ==
    [tech_base |-> 55, supervisor_base |-> 75, specialist_base |-> 120,
     project_management_base |-> 200,
     large_dehumidifier_daily |-> 25, standard_dehumidifier_daily |-> 15,
     air_mover_daily |-> 8, heater_daily |-> 12, air_scrubber_daily |-> 35,
     injection_system_daily |-> 25, generator_daily |-> 45,
     hardwood_target_mc |-> 8, paneling_target_mc |-> 10, vinyl_target_mc |-> 2,
     drywall_target_mc |-> 12, carpet_target_mc |-> 5]

(***************************************************************************)
(* The room calculation: the body of valid.map((row, index) => ...)        *)
(***************************************************************************)
\* 3 + (row.water_class - 1)
TotalDays(row) == 3 + (row.water_class - 1)

\* row.floor_materials?.toLowerCase().includes('hardwood'), on the sample names
IncludesHardwood(name) == ToLowerCase(name) \in {"hardwood", "hardwood floors"}

\* a unit count that takes the generator in
TotalUnitsWithGenerator(largeUnits, standardUnits, airMovers, heaters, airScrubbers, injectionSystems, generatorRequired) ==
    largeUnits + standardUnits + airMovers + heaters + airScrubbers + injectionSystems
    + generatorRequired

\* largeUnits + standardUnits + airMovers + heaters + airScrubbers + injectionSystems
TotalUnits(largeUnits, standardUnits, airMovers, heaters, airScrubbers, injectionSystems, generatorRequired) ==
    largeUnits + standardUnits + airMovers + heaters + airScrubbers + injectionSystems

\* an air mover count that rounds down
AirMoversRoundedDown(row) == row.room_sf \div 400

\* airMovers = Math.ceil(row.room_sf / 400)
AirMovers(row) == Ceil(row.room_sf, 400)

Equipment(row) ==
    LET largeUnits       == IF row.room_sf > 1500 THEN Ceil(row.room_sf, 2500) ELSE 0
        standardUnits    == IF row.room_sf <= 1500 THEN Ceil(row.room_sf, 1200) ELSE 0
        airMovers        == AirMovers(row)
        heaters          == IF row.water_category >= 3 THEN 1 ELSE 0
        airScrubbers     == IF row.water_category >= 3 THEN 1 ELSE 0
        injectionSystems == IF IncludesHardwood(row.floor_materials) THEN 1 ELSE 0
        generatorRequired == IF ToLowerCase(row.generator_needed) = "yes" THEN 1 ELSE 0
    IN  [large_units |-> largeUnits,
         standard_units |-> standardUnits,
         air_movers |-> airMovers,
         heaters |-> heaters,
         air_scrubbers |-> airScrubbers,
         injection_systems |-> injectionSystems,
         generator_required |-> generatorRequired,
         total_units |-> TotalUnits(largeUnits, standardUnits, airMovers, heaters,
                                    airScrubbers, injectionSystems, generatorRequired),
         recommended_dehumidifier_type |-> "Standard"]

\* hours in quarter hours, costs in money units
Labor(row, eq, cfg) ==
    LET techHours       == eq.total_units * 5
        techCost        == techHours * cfg.tech_base * (Dollars(1) \div 4)
        supervisorHours == (2 * (3 + (row.water_class - 1))) * 4
        supervisorCost  == supervisorHours * cfg.supervisor_base * (Dollars(1) \div 4)
        specialistHours == IF row.water_category >= 3 THEN 4 * 4 ELSE 0
        specialistCost  == specialistHours * cfg.specialist_base * (Dollars(1) \div 4)
        projectManagement == Dollars(cfg.project_management_base)
    IN  [tech_hours |-> techHours,
         tech_cost |-> techCost,
         supervisor_hours |-> supervisorHours,
         supervisor_cost |-> supervisorCost,
         specialist_hours |-> specialistHours,
         specialist_cost |-> specialistCost,
         project_management |-> projectManagement,
         total_labor |-> techCost + supervisorCost + specialistCost + projectManagement]

\* a daily cost that leaves the generator out
DailyCostWithoutGenerator(eq, cfg) ==
    Dollars((eq.large_units * cfg.large_dehumidifier_daily)
          + (eq.standard_units * cfg.standard_dehumidifier_daily)
          + (eq.air_movers * cfg.air_mover_daily)
          + (eq.heaters * cfg.heater_daily)
          + (eq.air_scrubbers * cfg.air_scrubber_daily)
          + (eq.injection_systems * cfg.injection_system_daily))

\* const dailyEquipmentCost = (largeUnits * large_dehumidifier_daily) + ...
DailyEquipmentCost(eq, cfg) ==
    Dollars((eq.large_units * cfg.large_dehumidifier_daily)
          + (eq.standard_units * cfg.standard_dehumidifier_daily)
          + (eq.air_movers * cfg.air_mover_daily)
          + (eq.heaters * cfg.heater_daily)
          + (eq.air_scrubbers * cfg.air_scrubber_daily)
          + (eq.injection_systems * cfg.injection_system_daily)
          + (eq.generator_required * cfg.generator_daily))

EquipmentCosts(row, eq, cfg) ==
    LET dailyEquipmentCost == DailyEquipmentCost(eq, cfg)
        totalDays == TotalDays(row)
    IN  [daily_cost |-> dailyEquipmentCost,
         total_days |-> totalDays,
         total_equipment |-> dailyEquipmentCost * totalDays]

\* an antimicrobial fee charged from grey water on
AntimicrobialFromGreyWater(row) == IF row.water_category >= 2 THEN Dollars(200) ELSE 0

\* antimicrobial: row.water_category >= 3 ? 200 : 0
Antimicrobial(row) == IF row.water_category >= 3 THEN Dollars(200) ELSE 0

MaterialCosts(row) ==
    LET floorTreatment   == row.floor_damage_sf * (Dollars(5) \div 2)
        wallTreatment    == row.wall_damage_sf * Dollars(2)
        ceilingTreatment == 0
        disposal         == Dollars(100)
        antimicrobial    == Antimicrobial(row)
    IN  [floor_treatment |-> floorTreatment,
         wall_treatment |-> wallTreatment,
         ceiling_treatment |-> ceilingTreatment,
         disposal |-> disposal,
         antimicrobial |-> antimicrobial,
         total_materials |-> floorTreatment + wallTreatment + ceilingTreatment
                             + disposal + antimicrobial]

\* a markup of 10%
MarkupOfTenPercent(subtotal) == Pct(subtotal, 10)

\* commercialMarkup = subtotal * 0.15
CommercialMarkup(subtotal) == Pct(subtotal, 15)

\* a cost per square foot of damaged floor
CostPerDamagedSqft(totalRoomCost, row) == Quot(totalRoomCost, row.floor_damage_sf)

\* costPerSqft = totalRoomCost / row.room_sf
CostPerSqft(totalRoomCost, row) == Quot(totalRoomCost, row.room_sf)

Costs(row, eq, cfg) ==
    LET labor     == Labor(row, eq, cfg)
        equipment == EquipmentCosts(row, eq, cfg)
        materials == MaterialCosts(row)
        subtotal  == labor.total_labor + equipment.total_equipment + materials.total_materials
        commercialMarkup == CommercialMarkup(subtotal)
        totalRoomCost    == subtotal + commercialMarkup
    IN  [labor |-> labor,
         equipment |-> equipment,
         materials |-> materials,
         subtotal |-> subtotal,
         commercial_markup |-> commercialMarkup,
         total_room_cost |-> totalRoomCost,
         cost_per_sqft |-> CostPerSqft(totalRoomCost, row)]

\* a timeline of one day per water class
EstimatedDaysFromClass(row) == row.water_class

\* estimated_days: 3 + (row.water_class - 1)
EstimatedDays(row) == 3 + (row.water_class - 1)

Timeline(row) ==
    [estimated_days |-> EstimatedDays(row),
     daily_monitoring_hours |-> 2,
     base_days |-> 3,
     class_multiplier |-> 10 + (row.water_class - 1) * 3,
     complexity_factors |-> [category |-> row.water_category, class |-> row.water_class]]

Electrical(row) ==
    [total_amperage |-> 45,
     circuits_20a_required |-> 1,
     circuits_15a_required |-> 2,
     daily_kwh |-> 24,
     voltage |-> "120V",
     generator_needed |-> IF ToLowerCase(row.generator_needed) = "yes" THEN 1 ELSE 0]

\* a floor specification that is left undefined
NoMaterialSpecs == [thickness |-> 0, cost |-> 0, target_mc |-> 0]

\* the floor's material_specs: { thickness: 0.75, cost: 2.5, target_mc: 8 }
FloorMaterialSpecs == [thickness |-> 75, cost |-> 250, target_mc |-> 8]

\* a wall moisture that adds the three readings up
MoistureSummed(row) ==
    (row.wall_damage_moisture_bottom + row.wall_damage_moisture_middle
     + row.wall_damage_moisture_top) * 10

\* moisture_weighted, in thousandths: (bottom * 0.5 + middle * 0.3 + top * 0.2)
MoistureWeighted(row) ==
    row.wall_damage_moisture_bottom * 5 + row.wall_damage_moisture_middle * 3
    + row.wall_damage_moisture_top * 2

\* material_specs: thickness in hundredths of an inch, cost in cents, target_mc in %
Materials(row) ==
    [floor |-> [material_type |-> row.floor_materials,
                material_specs |-> FloorMaterialSpecs,
                affected_sqft |-> row.floor_damage_sf,
                moisture_content |-> row.floor_materials_moisture,
                volume_cuft |-> Quot(row.floor_damage_sf * 75, 100 * 12),
                length_ft |-> row.length_ft,
                width_ft |-> row.width_ft],
     wall |-> [material_type |-> row.wall_materials,
               material_specs |-> [thickness |-> 50, cost |-> 225, target_mc |-> 12],
               affected_sqft |-> row.wall_damage_sf,
               moisture_weighted |-> MoistureWeighted(row),
               removal_factor |-> 1,
               volume_cuft |-> Quot(row.wall_damage_sf * 50, 100 * 12)],
     ceiling |-> [material_type |-> row.ceiling_materials,
                  material_specs |-> [thickness |-> 50, cost |-> 225, target_mc |-> 12],
                  affected_sqft |-> 0,
                  moisture_content |-> row.ceiling_damage_moisture,
                  volume_cuft |-> 0],
     total_volume |-> 0,
     disposal_volume |-> 0]

RoomResult(row, cfg) ==
    LET eq == Equipment(row)
    IN  [room_id |-> row.room_id,
         room_name |-> row.room_name,
         room_sf |-> row.room_sf,
         equipment |-> eq,
         costs |-> Costs(row, eq, cfg),
         timeline |-> Timeline(row),
         electrical |-> Electrical(row),
         materials |-> Materials(row)]

(***************************************************************************)
(* The project aggregation: mockResults.project                            *)
(***************************************************************************)
\* a timeline taken from the last room
LastTimeline(rooms) == rooms[Len(rooms)].timeline.estimated_days

LongestTimeline(rooms) == MaxSeq([i \in 1..Len(rooms) |-> rooms[i].timeline.estimated_days])

\* savings: projectTotalCost * 0.05
LaborSavings(projectTotalCost) == Pct(projectTotalCost, 5)

Project(rooms, valid) ==
    LET Sum(F(_)) == SumSeq([i \in 1..Len(rooms) |-> F(rooms[i])])
        CostOf(room)  == room.costs.total_room_cost
        UnitsOf(room) == room.equipment.total_units
        AmpsOf(room)  == 45
        projectTotalCost     == Sum(CostOf)
        projectTotalUnits    == Sum(UnitsOf)
        projectTotalAmperage == Sum(AmpsOf)
        longestTimeline      == LongestTimeline(rooms)
        SfOf(room)    == room.room_sf
        averageCostPerSf     == Quot(projectTotalCost, Sum(SfOf))
        Large(room)    == room.equipment.large_units
        Standard(room) == room.equipment.standard_units
        Movers(room)   == room.equipment.air_movers
        Heaters(room)  == room.equipment.heaters
        Scrubbers(room) == room.equipment.air_scrubbers
        Injection(room) == room.equipment.injection_systems
        Generators(room) == room.equipment.generator_required
        Circ20(room)   == room.electrical.circuits_20a_required
        Circ15(room)   == room.electrical.circuits_15a_required
        Kwh(room)      == room.electrical.daily_kwh
        KwhDays(room)  == room.electrical.daily_kwh * room.timeline.estimated_days
    IN  [room_count |-> Len(valid),
         total_cost |-> projectTotalCost,
         optimized_total_cost |-> Pct(projectTotalCost, 95),
         total_affected_sf |-> SumSeq([i \in 1..Len(valid) |-> valid[i].room_sf]),
         total_equipment_units |-> projectTotalUnits,
         total_amperage |-> projectTotalAmperage,
         longest_timeline |-> longestTimeline,
         average_cost_per_sf |-> averageCostPerSf,
         fleet_requirements |->
            [large_dehumidifiers |-> Sum(Large),
             standard_dehumidifiers |-> Sum(Standard),
             air_movers |-> Sum(Movers),
             heaters |-> Sum(Heaters),
             air_scrubbers |-> Sum(Scrubbers),
             injection_systems |-> Sum(Injection),
             generators |-> Sum(Generators),
             total_equipment_units |-> projectTotalUnits],
         electrical_summary |->
            [total_circuits_20a |-> Sum(Circ20),
             total_circuits_15a |-> Sum(Circ15),
             daily_kwh |-> Sum(Kwh),
             total_kwh_project |-> Sum(KwhDays),
             peak_amperage |-> projectTotalAmperage,
             voltage_standard |-> "120V"],
         labor_optimization |->
            [savings |-> LaborSavings(projectTotalCost),
             supervision_savings |-> Pct(projectTotalCost, 3),
             setup_breakdown_savings |-> Pct(projectTotalCost, 2),
             details |-> <<>>]]

(***************************************************************************)
(* POST /api/csv/process                                                   *)
(***************************************************************************)
MAX_FILE_SIZE == 10485760

\* validateCSVFile(file, maxSize): "" when valid, else the error
validateCSVFile(file, maxSize) ==
    IF ~file.present THEN "No file provided"
    ELSE IF file.size > maxSize THEN "File size exceeds maximum"
    ELSE IF file.extension \notin {".csv", ".txt"} THEN "Invalid file type"
    ELSE ""

\* createApiResponse(success, data, error, statusCode); data is <<>> when undefined
ApiResponse(success, data, error, messages, statusCode) ==
    [success |-> success, data |-> data, error |-> error,
     messages |-> messages, status |-> statusCode]

\* whether the handler gets as far as parseCSVContent
ReachesParse(req) == req.userId # "" /\ validateCSVFile(req.file, MAX_FILE_SIZE) = ""

\* the handler's answer to request req when getConfiguration returns cfgRes
ProcessCsv(req, cfgRes) ==
    LET csv   == parseCSVContent(req)
        rooms == [i \in 1..Len(csv.valid) |-> RoomResult(csv.valid[i], cfgRes.data[1])]
    IN  IF req.userId = ""
        THEN ApiResponse(FALSE, <<>>, "User ID not found in request context", <<>>, 401)
        ELSE IF validateCSVFile(req.file, MAX_FILE_SIZE) # ""
        THEN ApiResponse(FALSE, <<>>, validateCSVFile(req.file, MAX_FILE_SIZE), <<>>, 400)
        ELSE IF Len(csv.valid) = 0
        THEN ApiResponse(FALSE, <<>>, "No valid rows found",
                         [i \in 1..Len(csv.errors) |-> csv.errors[i].message], 400)
        ELSE IF ~cfgRes.success
        THEN ApiResponse(FALSE, <<>>, "Failed to retrieve user configuration", <<>>, 500)
        ELSE ApiResponse(TRUE,
                         <<[success |-> TRUE,
                            results |-> [rooms |-> rooms,
                                         project |-> Project(rooms, csv.valid)],
                            errors  |-> csv.errors,
                            skipped |-> Len(csv.invalid)]>>,
                         "", <<>>, 200)

(***************************************************************************)
(* Authentication: AuthService.createMiddleware and the app.use('/api/*')  *)
(* gate.  An Authorization header is a text; "" is an absent header.       *)
(***************************************************************************)
Authorizations ==
    {"", "Basic dXNlci0x", "Bearer jwt-user-1", "bearer jwt-user-2",
     "Bearer jwt-expired", "Bearer  "}

\* authHeader.match(/^Bearer\s+(.+)$/i): <<the token>>, or <<>> when there is no match
BearerToken(authHeader) ==
    CASE authHeader = "Bearer jwt-user-1"  -> <<"jwt-user-1">>
      [] authHeader = "bearer jwt-user-2"  -> <<"jwt-user-2">>
      [] authHeader = "Bearer jwt-expired" -> <<"jwt-expired">>
      [] authHeader = "Bearer  "           -> <<" ">>
      [] OTHER                             -> <<>>

AuthResult(success, data, message, statusCode) ==
    [success |-> success, data |-> data, message |-> message, statusCode |-> statusCode]

\* validateToken(token) on the sample tokens; data is <<>> when undefined
validateToken(token) ==
    CASE token = " "          -> AuthResult(FALSE, <<>>, "Authentication token is required", 401)
      [] token = "jwt-user-1" -> AuthResult(TRUE, <<[user_id |-> "user-1"]>>, "", 200)
      [] token = "jwt-user-2" -> AuthResult(TRUE, <<[user_id |-> "user-2"]>>, "", 200)
      [] OTHER                -> AuthResult(FALSE, <<>>, "Token has expired", 401)

\* what a middleware leaves: whether it called next(), the user it set on the
\* context (<<>> when none), the response it returned (<<>> when none)
Passed(user)      == [next |-> TRUE,  user |-> user, response |-> <<>>]
Refused(reply)    == [next |-> FALSE, user |-> <<>>, response |-> <<reply>>]

\* a middleware that lets every Bearer token through
MiddlewareWithoutValidation(authHeader) ==
    IF authHeader = "" \/ BearerToken(authHeader) = <<>>
    THEN Refused(ApiResponse(FALSE, <<>>, "Authorization header is required", <<>>, 401))
    ELSE Passed(<<"user-1">>)

\* the function AuthService.createMiddleware() returns
createMiddleware(authHeader) ==
    IF authHeader = ""
    THEN Refused(ApiResponse(FALSE, <<>>, "Authorization header is required", <<>>, 401))
    ELSE IF BearerToken(authHeader) = <<>>
    THEN Refused(ApiResponse(FALSE, <<>>, "Invalid Authorization header format", <<>>, 401))
    ELSE LET authResult == validateToken(BearerToken(authHeader)[1])
         IN  IF ~authResult.success
             THEN Refused(ApiResponse(FALSE, <<>>, authResult.message, <<>>,
                                      authResult.statusCode))
             ELSE Passed(<<authResult.data[1].user_id>>)

\* c.req.path.startsWith('/api/debug') on the paths of the model
StartsWithApiDebug(path) == path = "/api/debug/auth"

\* app.use('/api/*', ...): the gate in front of every /api route
ApiAuth(path, authHeader) ==
    IF path = "/api/health" \/ (isDevelopment /\ StartsWithApiDebug(path))
    THEN Passed(<<>>)
    ELSE createMiddleware(authHeader)

\* authService.getUserId(c): c.get('userId') || null, "" for null
getUserId(auth) == IF auth.user = <<>> THEN "" ELSE auth.user[1]

(***************************************************************************)
(* The configuration store: DatabaseClient over the table                  *)
(* user_configurations.  A row is [id, user_id, config_name] and the 16    *)
(* parameters; ids are given in order of insertion (AUTOINCREMENT).        *)
(***************************************************************************)
ConfigFields ==
    {"tech_base", "supervisor_base", "specialist_base", "project_management_base",
     "large_dehumidifier_daily", "standard_dehumidifier_daily", "air_mover_daily",
     "heater_daily", "air_scrubber_daily", "injection_system_daily", "generator_daily",
     "hardwood_target_mc", "paneling_target_mc", "vinyl_target_mc",
     "drywall_target_mc", "carpet_target_mc"}

\* A value of a request body that is not a number (JSON text such as "abc"): every
\* comparison with it is false, and the table stores it as it is.
NotANumber == -1000000

\* JavaScript a < b and a > b where a may be such a value
LessThan(a, b)    == a # NotANumber /\ a < b
GreaterThan(a, b) == a # NotANumber /\ a > b

\* the { min, max } of validateConfigurationData
ConfigLimits ==
    [tech_base |-> <<25, 150>>, supervisor_base |-> <<35, 200>>,
     specialist_base |-> <<75, 300>>, project_management_base |-> <<100, 500>>,
     large_dehumidifier_daily |-> <<15, 50>>, standard_dehumidifier_daily |-> <<8, 30>>,
     air_mover_daily |-> <<4, 15>>, heater_daily |-> <<6, 25>>,
     air_scrubber_daily |-> <<20, 75>>, injection_system_daily |-> <<15, 50>>,
     generator_daily |-> <<25, 100>>,
     hardwood_target_mc |-> <<6, 12>>, paneling_target_mc |-> <<8, 15>>,
     vinyl_target_mc |-> <<1, 5>>, drywall_target_mc |-> <<10, 18>>,
     carpet_target_mc |-> <<3, 8>>]

\* DatabaseResult<T>: data is <<>> when undefined, code is error.code ("" when none)
DatabaseResult(success, data, code) == [success |-> success, data |-> data, code |-> code]

\* the outcome of a DatabaseClient call: its result and the table it leaves
Outcome(result, table) == [result |-> result, table |-> table]

\* the fields of configData that validateConfigurationData finds out of range,
\* config_name for a blank name
validateConfigurationData(configData) ==
    {f \in ConfigFields \cap DOMAIN configData :
        LessThan(configData[f], ConfigLimits[f][1])
        \/ GreaterThan(configData[f], ConfigLimits[f][2])}
    \cup {f \in {"config_name"} \cap DOMAIN configData : configData[f] = ""}

\* the 16 parameters of a row or a request, those it leaves out taken from base
Merged(base, configData) ==
    [f \in ConfigFields |-> IF f \in DOMAIN configData THEN configData[f] ELSE base[f]]

Row(id, userId, configName, values) ==
    [id |-> id, user_id |-> userId, config_name |-> configName] @@ values

\* SELECT ... WHERE user_id = ? AND config_name = ? LIMIT 1: the ids of the rows found
SelectConfig(table, userId, configName) ==
    {i \in 1..Len(table) : table[i].user_id = userId /\ table[i].config_name = configName}

\* A deleted row: DELETE removes the row and AUTOINCREMENT never gives its id again,
\* so the table keeps the place of the id, owned by nobody.
Deleted(id) == Row(id, "", "", DEFAULT_CONFIGURATION)

\* a lookup by id that does not compare user_id
getConfigurationByIdOfAnyUser(table, configId, userId) ==
    IF configId \in 1..Len(table) /\ table[configId].user_id # ""
    THEN DatabaseResult(TRUE, <<table[configId]>>, "")
    ELSE DatabaseResult(FALSE, <<>>, "CONFIG_NOT_FOUND")

\* getConfigurationById(configId, userId): SELECT ... WHERE id = ? AND user_id = ?
getConfigurationById(table, configId, userId) ==
    IF userId = ""
    THEN DatabaseResult(FALSE, <<>>, "INVALID_USER_ID")
    ELSE IF configId <= 0
    THEN DatabaseResult(FALSE, <<>>, "INVALID_CONFIG_ID")
    ELSE IF ~dbAvailable
    THEN DatabaseResult(FALSE, <<>>, "GET_CONFIG_BY_ID_FAILED")
    ELSE IF configId \in 1..Len(table) /\ table[configId].user_id = userId
    THEN DatabaseResult(TRUE, <<table[configId]>>, "")
    ELSE DatabaseResult(FALSE, <<>>, "CONFIG_NOT_FOUND")

\* deleteConfiguration(configId, userId): DELETE ... WHERE id = ? AND user_id = ?
deleteConfiguration(table, configId, userId) ==
    IF userId = ""
    THEN Outcome(DatabaseResult(FALSE, <<>>, "INVALID_USER_ID"), table)
    ELSE IF configId <= 0
    THEN Outcome(DatabaseResult(FALSE, <<>>, "INVALID_CONFIG_ID"), table)
    ELSE IF ~dbAvailable
    THEN Outcome(DatabaseResult(FALSE, <<>>, "DELETE_CONFIG_FAILED"), table)
    ELSE IF configId \in 1..Len(table) /\ table[configId].user_id = userId
    THEN Outcome(DatabaseResult(TRUE, <<TRUE>>, ""),
                 [table EXCEPT ![configId] = Deleted(configId)])
    ELSE Outcome(DatabaseResult(FALSE, <<>>, "CONFIG_NOT_FOUND"), table)

\* createConfiguration(userId, configData): INSERT, then fetch the created row
createConfiguration(table, userId, configData) ==
    LET name  == IF "config_name" \in DOMAIN configData /\ configData.config_name # ""
                 THEN configData.config_name ELSE "default"
        id    == Len(table) + 1
        after == Append(table, Row(id, userId, name, Merged(DEFAULT_CONFIGURATION, configData)))
    IN  IF ~dbAvailable
        THEN Outcome(DatabaseResult(FALSE, <<>>, "CREATE_CONFIG_FAILED"), table)
        ELSE IF SelectConfig(table, userId, name) # {}
        THEN Outcome(DatabaseResult(FALSE, <<>>, "CONFIG_EXISTS"), table)
        ELSE Outcome(getConfigurationById(after, id, userId), after)

\* updateConfiguration(userId, configId, configData): merge into the row, UPDATE, fetch
updateConfiguration(table, userId, configId, configData) ==
    LET existingResult == getConfigurationById(table, configId, userId)
        existing == existingResult.data[1]
        name     == IF "config_name" \in DOMAIN configData
                    THEN configData.config_name ELSE existing.config_name
        after    == [table EXCEPT ![configId] =
                        Row(configId, userId, name, Merged(existing, configData))]
    IN  IF ~existingResult.success
        THEN Outcome(existingResult, table)
        ELSE IF SelectConfig(table, userId, name) \ {configId} # {}
        THEN Outcome(DatabaseResult(FALSE, <<>>, "CONFIG_NAME_EXISTS"), table)
        ELSE Outcome(getConfigurationById(after, configId, userId), after)

\* saveConfiguration(userId, configData)
saveConfiguration(table, userId, configData) ==
    IF userId = ""
    THEN Outcome(DatabaseResult(FALSE, <<>>, "INVALID_USER_ID"), table)
    ELSE IF validateConfigurationData(configData) # {}
    THEN Outcome(DatabaseResult(FALSE, <<>>, "VALIDATION_FAILED"), table)
    ELSE IF "id" \in DOMAIN configData
    THEN updateConfiguration(table, userId, configData.id, configData)
    ELSE createConfiguration(table, userId, configData)

\* createDefaultConfiguration(userId, configName)
createDefaultConfiguration(table, userId, configName) ==
    createConfiguration(table, userId, [config_name |-> configName] @@ DEFAULT_CONFIGURATION)

\* a getConfiguration that writes the defaults over the row it finds
getConfigurationResetting(table, userId, configName) ==
    IF SelectConfig(table, userId, configName) = {}
    THEN createDefaultConfiguration(table, userId, configName)
    ELSE LET id    == CHOOSE i \in SelectConfig(table, userId, configName) : TRUE
             after == [table EXCEPT ![id] = Row(id, userId, configName, DEFAULT_CONFIGURATION)]
         IN  Outcome(DatabaseResult(TRUE, <<after[id]>>, ""), after)

\* getConfiguration(userId, configName): the row, created with the defaults if missing
getConfiguration(table, userId, configName) ==
    IF userId = ""
    THEN Outcome(DatabaseResult(FALSE, <<>>, "INVALID_USER_ID"), table)
    ELSE IF ~dbAvailable
    THEN Outcome(DatabaseResult(FALSE, <<>>, "GET_CONFIG_FAILED"), table)
    ELSE IF SelectConfig(table, userId, configName) # {}
    THEN Outcome(DatabaseResult(TRUE,
                    <<table[CHOOSE i \in SelectConfig(table, userId, configName) : TRUE]>>,
                    ""), table)
    ELSE createDefaultConfiguration(table, userId, configName)

\* what dbClient.getConfiguration(userId) returns to the handler of the upload
configResult == getConfiguration(configurations, upload.userId, "default").result

(***************************************************************************)
(* Requests                                                                *)
(***************************************************************************)
\* The sample row of the README (src/README.md, "Sample Data")
BaseCells ==
    [claim_id |-> "CLM001", room_id |-> "R001", room_name |-> "Main Office",
     generator_needed |-> "No",
     water_category |-> NumCell(2), water_class |-> NumCell(2),
     room_temp_f |-> NumCell(72), room_humidity |-> NumCell(55),
     ceiling_damage |-> "No",
     ceiling_materials |-> "", ceiling_damage_moisture |-> NumCell(0),
     wall_damage |-> "Yes", wall_materials |-> "drywall",
     wall_damage_moisture_bottom |-> NumCell(45),
     wall_damage_moisture_middle |-> NumCell(25),
     wall_damage_moisture_top |-> NumCell(15),
     wall_damage_sf |-> NumCell(120),
     floor_materials |-> "hardwood", floor_materials_moisture |-> NumCell(35),
     floor_damage_sf |-> NumCell(200),
     room_sf |-> NumCell(400), length_ft |-> NumCell(20), width_ft |-> NumCell(20)]

BlankLine == <<>>

\* The lines an upload of the handler specification is made of
UploadLines ==
    { BlankLine,
      <<BaseCells>>,
      \* black water, specialty class, large room, generator
      <<[BaseCells EXCEPT !.room_id = "R002", !.room_name = "Server Room",
                          !.water_category = NumCell(3), !.water_class = NumCell(4),
                          !.room_sf = NumCell(1600), !.generator_needed = "Yes",
                          !.floor_materials = "carpet"]>>,
      \* smallest room, minimal class, a negative damage area
      <<[BaseCells EXCEPT !.room_id = "R003", !.room_name = "Closet",
                          !.water_class = NumCell(1), !.room_sf = NumCell(50),
                          !.floor_damage_sf = NumCell(-2000)]>>,
      \* blank water_category and water_class cells
      <<[BaseCells EXCEPT !.room_id = "R004", !.room_name = "Lobby",
                          !.water_category = NaNCell, !.water_class = NumCell(0)]>>,
      \* one error
      <<[BaseCells EXCEPT !.claim_id = "  "]>>,
      \* two errors
      <<[BaseCells EXCEPT !.room_sf = NumCell(5001), !.room_humidity = NumCell(95)]>>,
      \* a moisture reading above 95%
      <<[BaseCells EXCEPT !.wall_damage_moisture_top = NumCell(96)]>> }

RECURSIVE SeqsUpTo(_, _)
\* the sequences over S of length at most n
SeqsUpTo(S, n) ==
    IF n = 0 THEN {<<>>}
    ELSE LET shorter == SeqsUpTo(S, n - 1)
         IN  shorter \cup {Append(s, x) : s \in shorter, x \in S}

GoodFile == [present |-> TRUE, size |-> 4096, extension |-> ".csv"]

\* the highest published value of every rate (src/README.md, "Configuration Parameters")
HighRates ==
    [tech_base |-> 150, supervisor_base |-> 200, specialist_base |-> 300,
     project_management_base |-> 500,
     large_dehumidifier_daily |-> 50, standard_dehumidifier_daily |-> 30,
     air_mover_daily |-> 15, heater_daily |-> 25, air_scrubber_daily |-> 75,
     injection_system_daily |-> 50, generator_daily |-> 100,
     hardwood_target_mc |-> 12, paneling_target_mc |-> 15, vinyl_target_mc |-> 5,
     drywall_target_mc |-> 18, carpet_target_mc |-> 8]

\* The table and the state of the database a calculation run may find: no row yet,
\* the user's default configuration saved with the highest rates, only a row of
\* another user, and a database that does not answer.
StoreStates ==
    { [table |-> <<>>, available |-> TRUE],
      [table |-> <<Row(1, "user-1", "default", HighRates)>>, available |-> TRUE],
      [table |-> <<Row(1, "user-2", "default", HighRates)>>, available |-> TRUE],
      [table |-> <<>>, available |-> FALSE] }

\* the request as it arrives: userId is set by the authentication middleware
Request(authorization, file, headers, lines) ==
    [authorization |-> authorization, userId |-> "",
     file |-> file, headers |-> headers, lines |-> lines]

\* requests that are turned away before any row is parsed
RejectedRequests ==
    { Request("", GoodFile, requiredColumns, <<<<BaseCells>>>>),
      Request("Basic dXNlci0x", GoodFile, requiredColumns, <<<<BaseCells>>>>),
      Request("Bearer jwt-expired", GoodFile, requiredColumns, <<<<BaseCells>>>>),
      Request("Bearer jwt-user-1", [GoodFile EXCEPT !.present = FALSE], requiredColumns, <<>>),
      Request("Bearer jwt-user-1", [GoodFile EXCEPT !.size = MAX_FILE_SIZE + 1], requiredColumns, <<<<BaseCells>>>>),
      Request("Bearer jwt-user-1", [GoodFile EXCEPT !.extension = ".xlsx"], requiredColumns, <<<<BaseCells>>>>),
      Request("Bearer jwt-user-1", GoodFile, requiredColumns \ {"room_sf"}, <<<<BaseCells>>>>) }

Requests ==
    { Request("Bearer jwt-user-1", GoodFile, requiredColumns, ls) : ls \in SeqsUpTo(UploadLines, MaxRows) }
    \cup RejectedRequests

NoResponse == <<>>

\* The cells a row of the single-row specification may hold in place of the sample's
Alternatives ==
    {<<"claim_id", "">>, <<"claim_id", "  ">>, <<"room_id", "">>, <<"room_name", "\"\"">>,
     <<"generator_needed", "Yes">>, <<"generator_needed", "maybe">>,
     <<"generator_needed", "YES">>, <<"generator_needed", "">>,
     <<"ceiling_damage", "yes">>, <<"ceiling_damage", "Maybe">>,
     <<"wall_damage", "no">>, <<"wall_damage", "">>,
     <<"floor_materials", "carpet">>, <<"floor_materials", "Hardwood">>,
     <<"floor_materials", "">>, <<"floor_materials", "linoleum">>,
     <<"floor_materials", "wood">>, <<"floor_materials", "hardwood floors">>,
     <<"wall_materials", "">>, <<"wall_materials", "shiplap">>,
     <<"ceiling_materials", "acoustic tile">>, <<"ceiling_materials", "mylar">>}
    \cup {<<"water_category", c>> : c \in {NaNCell, NumCell(0), NumCell(1), NumCell(3), NumCell(4), NumCell(-1)}}
    \cup {<<"water_class", c>> : c \in {NaNCell, NumCell(0), NumCell(1), NumCell(3), NumCell(4), NumCell(5)}}
    \cup {<<"room_sf", c>> : c \in {NaNCell, NumCell(49), NumCell(50), NumCell(1500),
                                      NumCell(1501), NumCell(5000), NumCell(5001)}}
    \cup {<<"room_temp_f", c>> : c \in {NaNCell, NumCell(59), NumCell(60), NumCell(100), NumCell(101)}}
    \cup {<<"room_humidity", c>> : c \in {NaNCell, NumCell(19), NumCell(20), NumCell(90), NumCell(91)}}
    \cup {<<moistureFields[i], c>> : i \in 1..Len(moistureFields),
              c \in {NaNCell, NumCell(0), NumCell(-10), NumCell(4), NumCell(5), NumCell(95), NumCell(96)}}
    \cup {<<"floor_damage_sf", NumCell(0)>>, <<"floor_damage_sf", NumCell(-2000)>>,
          <<"wall_damage_sf", NaNCell>>}

RECURSIVE Variants(_)
\* the rows that differ from the sample row in at most k cells
Variants(k) ==
    IF k = 0 THEN {BaseCells}
    ELSE LET fewer == Variants(k - 1)
         IN  fewer \cup {[r EXCEPT ![a[1]] = a[2]] : r \in fewer, a \in Alternatives}

RowRequests ==
    { Request("Bearer jwt-user-1", GoodFile, requiredColumns, <<<<cells>>>>) : cells \in Variants(MaxDeviations) }

\* The bodies of PUT /api/config in the model.  A body names the parameters it
\* sets; only carpet_target_mc, which the calculation does not read, is ever text.
ConfigRequests ==
    { [tech_base |-> 150],
      [tech_base |-> 151],
      [carpet_target_mc |-> NotANumber],
      [config_name |-> "site-b", generator_daily |-> 100, carpet_target_mc |-> 3],
      [config_name |-> ""],
      [id |-> 1, carpet_target_mc |-> 8],
      [id |-> 1, generator_daily |-> 24],
      [id |-> 2, config_name |-> "default"] }

\* the Authorization headers PUT /api/config is sent with in the model
SavingAuthorizations == {"Bearer jwt-user-1", "bearer jwt-user-2", "Bearer jwt-expired"}

NoBody == <<>>

\* What the application did with a request: the user its middleware set on the
\* context (<<>>: none), the route handler that ran ("": none), the status and,
\* for PUT /api/config, the error code of saveConfiguration.
Call(path, authorization, body, user, handler, status, code) ==
    [path |-> path, authorization |-> authorization, body |-> body, user |-> user,
     handler |-> handler, status |-> status, code |-> code]

NoCall == Call("", "", NoBody, <<>>, "", 0, "")

\* the uploads of the specifications of the routes
ApiUploads ==
    { Request("Bearer jwt-user-1", GoodFile, requiredColumns, <<<<BaseCells>>>>),
      Request("bearer jwt-user-2", GoodFile, requiredColumns, <<<<BaseCells>>>>),
      Request("Bearer jwt-expired", GoodFile, requiredColumns, <<<<BaseCells>>>>) }

\* a DatabaseClient call: the table before it and the DatabaseResult it returned
DbCall(operation, userId, configId, body, before, result) ==
    [operation |-> operation, userId |-> userId, configId |-> configId, body |-> body,
     before |-> before, result |-> result]

NoDbCall == DbCall("", "", 0, NoBody, <<>>, DatabaseResult(FALSE, <<>>, ""))

\* nobody calls DatabaseClient but the routes
NoClient == callers = <<>> /\ dbCall = NoDbCall

\* no page is open
NoUi ==
    /\ fileUpload = <<>> /\ processFileRuns = <<>> /\ timers = <<>>
    /\ calculator = <<>> /\ pending = <<>>

Init ==
    /\ upload \in Requests
    /\ \E store \in StoreStates :
          configurations = store.table /\ dbAvailable = store.available
    /\ isDevelopment = FALSE
    /\ call = NoCall
    /\ parsed = <<>>
    /\ response = NoResponse
    /\ NoClient
    /\ NoUi

InitRow ==
    /\ upload \in RowRequests
    /\ configurations = <<>>
    /\ dbAvailable = TRUE
    /\ isDevelopment = FALSE
    /\ call = NoCall
    /\ parsed = <<>>
    /\ response = NoResponse
    /\ NoClient
    /\ NoUi

\* createApp(env) of a production deployment on an empty table
InitStore ==
    /\ upload \in {u \in ApiUploads : createMiddleware(u.authorization).next}
    /\ configurations = <<>>
    /\ dbAvailable = TRUE
    /\ isDevelopment = FALSE
    /\ call = NoCall
    /\ parsed = <<>>
    /\ response = NoResponse
    /\ NoClient
    /\ NoUi

\* createApp(env) of a production or a development deployment on an empty table
InitAuth ==
    /\ upload \in ApiUploads
    /\ configurations = <<>>
    /\ dbAvailable \in BOOLEAN
    /\ isDevelopment \in BOOLEAN
    /\ call = NoCall
    /\ parsed = <<>>
    /\ response = NoResponse
    /\ NoClient
    /\ NoUi

\* app.post('/api/csv/process') behind the app.use('/api/*') gate: the whole request
PostCsvProcess ==
    /\ response = NoResponse
    /\ LET auth    == ApiAuth("/api/csv/process", upload.authorization)
           c       == [upload EXCEPT !.userId = getUserId(auth)]
           csv     == parseCSVContent(c)
           fetches == auth.next /\ ReachesParse(c) /\ Len(csv.valid) > 0
           fetched == getConfiguration(configurations, c.userId, "default")
           answer  == IF auth.next THEN ProcessCsv(c, fetched.result) ELSE auth.response[1]
       IN  /\ Len(fetched.table) <= MaxConfigurations
           /\ upload' = c
           /\ parsed' = IF auth.next /\ ReachesParse(c) THEN <<csv>> ELSE <<>>
           /\ configurations' = IF fetches THEN fetched.table ELSE configurations
           /\ response' = <<answer>>
           /\ call' = Call("/api/csv/process", upload.authorization, NoBody, auth.user,
                           IF auth.next THEN "csvProcess" ELSE "", answer.status, "")
    /\ UNCHANGED <<dbAvailable, isDevelopment>>
    /\ UNCHANGED <<clientVars, uiVars>>

\* app.get('/api/config') behind the gate
GetConfig ==
    /\ response = NoResponse
    /\ \E authHeader \in Authorizations :
          LET auth   == ApiAuth("/api/config", authHeader)
              userId == getUserId(auth)
              runs   == auth.next /\ userId # ""
              result == getConfiguration(configurations, userId, "default")
              status == IF ~auth.next THEN auth.response[1].status
                        ELSE IF userId = "" THEN 401
                        ELSE IF ~result.result.success THEN 500 ELSE 200
          IN  /\ Len(result.table) <= MaxConfigurations
              /\ configurations' = IF runs THEN result.table ELSE configurations
              /\ call' = Call("/api/config", authHeader, NoBody, auth.user,
                              IF auth.next THEN "getConfig" ELSE "", status,
                              IF runs THEN result.result.code ELSE "")
    /\ UNCHANGED <<upload, dbAvailable, isDevelopment, parsed, response>>
    /\ UNCHANGED <<clientVars, uiVars>>

\* app.put('/api/config') behind the gate
PutConfig ==
    /\ response = NoResponse
    /\ \E authHeader \in SavingAuthorizations, configData \in ConfigRequests :
          LET auth   == ApiAuth("/api/config", authHeader)
              userId == getUserId(auth)
              runs   == auth.next /\ userId # ""
              result == saveConfiguration(configurations, userId, configData)
              status == IF ~auth.next THEN auth.response[1].status
                        ELSE IF userId = "" THEN 401
                        ELSE IF result.result.success THEN 200
                        ELSE IF result.result.code = "VALIDATION_FAILED" THEN 400 ELSE 500
          IN  /\ Len(result.table) <= MaxConfigurations
              /\ configurations' = IF runs THEN result.table ELSE configurations
              /\ call' = Call("/api/config", authHeader, <<configData>>, auth.user,
                              IF auth.next THEN "putConfig" ELSE "", status,
                              IF runs THEN result.result.code ELSE "")
    /\ UNCHANGED <<upload, dbAvailable, isDevelopment, parsed, response>>
    /\ UNCHANGED <<clientVars, uiVars>>

\* app.get('/api/health'): registered without authentication
GetHealth ==
    /\ response = NoResponse
    /\ \E authHeader \in Authorizations :
          LET auth == ApiAuth("/api/health", authHeader)
          IN  call' = Call("/api/health", authHeader, NoBody, auth.user, "health",
                           IF dbAvailable THEN 200 ELSE 503, "")
    /\ UNCHANGED <<upload, configurations, dbAvailable, isDevelopment, parsed, response>>
    /\ UNCHANGED <<clientVars, uiVars>>

\* a request for /api/debug/auth: in development the route and its own middleware,
\* otherwise the gate and then no route (404)
GetDebugAuth ==
    /\ response = NoResponse
    /\ \E authHeader \in Authorizations :
          LET gate  == ApiAuth("/api/debug/auth", authHeader)
              route == createMiddleware(authHeader)
          IN  call' =
                IF ~gate.next
                THEN Call("/api/debug/auth", authHeader, NoBody, gate.user, "",
                          gate.response[1].status, "")
                ELSE IF ~isDevelopment
                THEN Call("/api/debug/auth", authHeader, NoBody, gate.user, "", 404, "")
                ELSE IF ~route.next
                THEN Call("/api/debug/auth", authHeader, NoBody, route.user, "",
                          route.response[1].status, "")
                ELSE Call("/api/debug/auth", authHeader, NoBody, route.user, "debugAuth",
                          200, "")
    /\ UNCHANGED <<upload, configurations, dbAvailable, isDevelopment, parsed, response>>
    /\ UNCHANGED <<clientVars, uiVars>>

Next == PostCsvProcess

NextStore == GetConfig \/ PutConfig \/ PostCsvProcess

NextAuth == GetConfig \/ GetHealth \/ GetDebugAuth \/ PostCsvProcess

\* uploads of up to MaxRows lines
Spec == Init /\ [][Next]_vars

\* uploads of one row, over every combination of up to MaxDeviations cells
SpecRow == InitRow /\ [][Next]_vars

\* requests that read and save configurations, from an empty table, then one upload
SpecStore == InitStore /\ [][NextStore]_vars

\* requests to every route under every Authorization header, then one upload
SpecAuth == InitAuth /\ [][NextAuth]_vars

(***************************************************************************)
(* DatabaseClient called directly.  getConfigurationById, saveConfiguration *)
(* and deleteConfiguration are called one after the other by two users;     *)
(* getConfiguration is called by several callers at once, and a call gives  *)
(* way to the others at each of its awaits: after SELECT_CONFIG, after      *)
(* INSERT_CONFIG and after SELECT_CONFIG_BY_ID.                             *)
(***************************************************************************)
\* no file is uploaded
NoUpload == Request("", [GoodFile EXCEPT !.present = FALSE], requiredColumns, <<>>)

Users == {"user-1", "user-2"}

ConfigNames == {"default", "site-b"}

\* the bodies saveConfiguration is called with: those of PUT /api/config, a body
\* that is out of range and names a row, and a body that names another owner
ClientRequests ==
    ConfigRequests
    \cup { [id |-> 1, tech_base |-> 151],
           [id |-> 1, user_id |-> "user-2", tech_base |-> 100] }

InitClient ==
    /\ upload = NoUpload
    /\ configurations = <<>>
    /\ dbAvailable = TRUE
    /\ isDevelopment = FALSE
    /\ call = NoCall
    /\ parsed = <<>>
    /\ response = NoResponse
    /\ NoClient
    /\ NoUi

GetConfigurationById ==
    /\ \E userId \in Users, configId \in 1..MaxConfigurations :
          dbCall' = DbCall("getConfigurationById", userId, configId, NoBody, configurations,
                           getConfigurationById(configurations, configId, userId))
    /\ UNCHANGED <<apiVars, callers, uiVars>>

SaveConfiguration ==
    /\ \E userId \in Users, configData \in ClientRequests :
          LET saved == saveConfiguration(configurations, userId, configData)
          IN  /\ Len(saved.table) <= MaxConfigurations
              /\ configurations' = saved.table
              /\ dbCall' = DbCall("saveConfiguration", userId,
                                  IF "id" \in DOMAIN configData THEN configData.id ELSE 0,
                                  <<configData>>, configurations, saved.result)
    /\ UNCHANGED <<upload, dbAvailable, isDevelopment, call, parsed, response>>
    /\ UNCHANGED <<callers, uiVars>>

DeleteConfiguration ==
    /\ \E userId \in Users, configId \in 1..MaxConfigurations :
          LET deleted == deleteConfiguration(configurations, configId, userId)
          IN  /\ configurations' = deleted.table
              /\ dbCall' = DbCall("deleteConfiguration", userId, configId, NoBody,
                                  configurations, deleted.result)
    /\ UNCHANGED <<upload, dbAvailable, isDevelopment, call, parsed, response>>
    /\ UNCHANGED <<callers, uiVars>>

NextClient == GetConfigurationById \/ SaveConfiguration \/ DeleteConfiguration

\* calls of two users, one after the other, from an empty table
SpecClient == InitClient /\ [][NextClient]_vars

\* a getConfiguration call that has passed its userId check and awaits SELECT_CONFIG
Caller(userId, configName) ==
    [userId |-> userId, configName |-> configName, pc |-> "select", rowId |-> 0,
     result |-> <<>>]

Returned(caller, result) == [caller EXCEPT !.pc = "returned", !.result = <<result>>]

InitConcurrent ==
    /\ upload = NoUpload
    /\ configurations = <<>>
    /\ dbAvailable = TRUE
    /\ isDevelopment = FALSE
    /\ call = NoCall
    /\ parsed = <<>>
    /\ response = NoResponse
    /\ callers \in [1..MaxCallers -> {Caller(u, n) : u \in Users, n \in ConfigNames}]
    /\ dbCall = NoDbCall
    /\ NoUi

\* await this.db.prepare(SQL_QUERIES.SELECT_CONFIG).bind(userId, configName).first()
\* and the code up to the next await
SelectExisting(p) ==
    /\ callers[p].pc = "select"
    /\ LET c     == callers[p]
           found == SelectConfig(configurations, c.userId, c.configName)
       IN  callers' = [callers EXCEPT ![p] =
              IF ~dbAvailable
              THEN Returned(c, DatabaseResult(FALSE, <<>>, "GET_CONFIG_FAILED"))
              ELSE IF found # {}
              THEN Returned(c, DatabaseResult(TRUE,
                                  <<configurations[CHOOSE i \in found : TRUE]>>, ""))
              ELSE [c EXCEPT !.pc = "insert"]]
    /\ UNCHANGED <<apiVars, dbCall, uiVars>>

\* createDefaultConfiguration -> createConfiguration: await INSERT_CONFIG ... run()
InsertDefault(p) ==
    /\ callers[p].pc = "insert"
    /\ LET c    == callers[p]
           name == IF c.configName # "" THEN c.configName ELSE "default"
           id   == Len(configurations) + 1
       IN  IF ~dbAvailable
           THEN /\ callers' = [callers EXCEPT ![p] =
                       Returned(c, DatabaseResult(FALSE, <<>>, "CREATE_CONFIG_FAILED"))]
                /\ UNCHANGED configurations
           ELSE IF SelectConfig(configurations, c.userId, name) # {}
           THEN \* UNIQUE constraint failed: user_configurations.user_id, config_name
                /\ callers' = [callers EXCEPT ![p] =
                       Returned(c, DatabaseResult(FALSE, <<>>, "CONFIG_EXISTS"))]
                /\ UNCHANGED configurations
           ELSE /\ configurations' =
                       Append(configurations, Row(id, c.userId, name, DEFAULT_CONFIGURATION))
                /\ callers' = [callers EXCEPT ![p] = [c EXCEPT !.pc = "fetch", !.rowId = id]]
    /\ UNCHANGED <<upload, dbAvailable, isDevelopment, call, parsed, response>>
    /\ UNCHANGED <<dbCall, uiVars>>

\* return await this.getConfigurationById(result.meta.last_row_id, userId)
FetchCreated(p) ==
    /\ callers[p].pc = "fetch"
    /\ LET c == callers[p]
       IN  callers' = [callers EXCEPT ![p] =
              Returned(c, getConfigurationById(configurations, c.rowId, c.userId))]
    /\ UNCHANGED <<apiVars, dbCall, uiVars>>

NextConcurrent ==
    \/ \E p \in 1..MaxCallers : SelectExisting(p)
    \/ \E p \in 1..MaxCallers : InsertDefault(p)
    \/ \E p \in 1..MaxCallers : FetchCreated(p)

\* MaxCallers calls of getConfiguration in progress together, from an empty table
SpecConcurrent == InitConcurrent /\ [][NextConcurrent]_vars

(***************************************************************************)
(* The FileUpload component (src/src/components/Calculator/FileUpload.tsx). *)
(* fileUpload holds its state hooks; a processFile run gives way to the     *)
(* events of the page at each of its awaits (file.text(), uploadFile), and  *)
(* handleRetry leaves a timer that starts a run when it fires.  The parent  *)
(* keeps the component mounted and enabled (isDisabled = false); what       *)
(* onResults and onError do is the parent's.  'processing' is set and       *)
(* replaced within one turn of the event loop, so it is never a state the   *)
(* handlers see.                                                            *)
(***************************************************************************)
RETRY_ATTEMPTS == 3

\* the files the user selects or drops: a CSV of rooms, a CSV without data rows, an image
Files == {"rooms.csv", "empty.csv", "photo.png"}

\* validateFile(file, maxFileSize).isValid: the extension is .csv or .txt
validateFile(file) == file \in {"rooms.csv", "empty.csv"}

\* validateCSVStructure(content).isValid: a header row with the columns, and a data row
validateCSVStructure(file) == file = "rooms.csv"

\* how uploadFile settles: it resolves with the results, or rejects with a message
UploadOutcomes ==
    {"results", "Network error occurred during upload", "HTTP 400: Bad Request",
     "HTTP 500: Internal Server Error"}

UploadError(type, canRetry) == [type |-> type, canRetry |-> canRetry]

\* the catch block of processFile: the error type and canRetry of a message
Categorize(errorMessage) ==
    CASE errorMessage = "Network error occurred during upload" -> UploadError("network", TRUE)
      [] errorMessage = "HTTP 400: Bad Request" -> UploadError("validation", FALSE)
      [] OTHER -> UploadError("processing", TRUE)

\* useState: 'idle', no file, no error, retryCount 0
Mounted == [uploadState |-> "idle", selectedFile |-> "", retryCount |-> 0, error |-> <<>>]

\* a processFile run waiting for file.text() ("text") or for uploadFile ("upload")
Run(file, pc) == [file |-> file, pc |-> pc]

\* processFile(file) up to its first await or its first return
StartProcessFile(fu, file) ==
    IF validateFile(file)
    THEN [fu EXCEPT !.error = <<>>, !.uploadState = "validating"]
    ELSE [fu EXCEPT !.error = <<UploadError("file", FALSE)>>, !.uploadState = "error"]

\* the sequence s without its k-th element
Without(s, k) == SubSeq(s, 1, k - 1) \o SubSeq(s, k + 1, Len(s))

InitUpload ==
    /\ upload = NoUpload
    /\ configurations = <<>>
    /\ dbAvailable = TRUE
    /\ isDevelopment = FALSE
    /\ call = NoCall
    /\ parsed = <<>>
    /\ response = NoResponse
    /\ NoClient
    /\ fileUpload = Mounted
    /\ processFileRuns = <<>>
    /\ timers = <<>>
    /\ calculator = <<>>
    /\ pending = <<>>

\* handleFileSelect(file), from the file input or from handleDrop
HandleFileSelect ==
    /\ fileUpload.uploadState \notin {"uploading", "processing"}
    /\ Len(processFileRuns) + Len(timers) < MaxRuns
    /\ \E file \in Files :
          /\ fileUpload' = StartProcessFile([fileUpload EXCEPT !.selectedFile = file,
                                                               !.retryCount = 0], file)
          /\ processFileRuns' = IF validateFile(file)
                                THEN Append(processFileRuns, Run(file, "text"))
                                ELSE processFileRuns
    /\ UNCHANGED <<apiVars, clientVars, timers, calculator, pending>>

\* processFile after await file.text(): validateCSVStructure, then uploadFile
FileRead ==
    /\ \E k \in 1..Len(processFileRuns) :
          /\ processFileRuns[k].pc = "text"
          /\ IF validateCSVStructure(processFileRuns[k].file)
             THEN /\ fileUpload' = [fileUpload EXCEPT !.uploadState = "uploading"]
                  /\ processFileRuns' = [processFileRuns EXCEPT ![k].pc = "upload"]
             ELSE /\ fileUpload' = [fileUpload EXCEPT
                                       !.error = <<UploadError("validation", FALSE)>>,
                                       !.uploadState = "error"]
                  /\ processFileRuns' = Without(processFileRuns, k)
    /\ UNCHANGED <<apiVars, clientVars, timers, calculator, pending>>

\* processFile after await uploadFile(file): success and onResults, or the catch block
UploadSettled ==
    /\ \E k \in 1..Len(processFileRuns), outcome \in UploadOutcomes :
          /\ processFileRuns[k].pc = "upload"
          /\ fileUpload' = IF outcome = "results"
                           THEN [fileUpload EXCEPT !.uploadState = "success"]
                           ELSE [fileUpload EXCEPT !.error = <<Categorize(outcome)>>,
                                                   !.uploadState = "error"]
          /\ processFileRuns' = Without(processFileRuns, k)
    /\ UNCHANGED <<apiVars, clientVars, timers, calculator, pending>>

\* a click on Retry, which renderError shows while error.canRetry && retryCount < 3:
\* handleRetry counts the retry and sets the timer
HandleRetry ==
    /\ fileUpload.error # <<>> /\ fileUpload.error[1].canRetry
    /\ fileUpload.selectedFile # "" /\ fileUpload.retryCount < RETRY_ATTEMPTS
    /\ Len(processFileRuns) + Len(timers) < MaxRuns
    /\ fileUpload' = [fileUpload EXCEPT !.retryCount = @ + 1]
    /\ timers' = Append(timers, fileUpload.selectedFile)
    /\ UNCHANGED <<apiVars, clientVars, processFileRuns, calculator, pending>>

\* the setTimeout callback of handleRetry: processFile(selectedFile)
RetryTimeout ==
    /\ timers # <<>>
    /\ fileUpload' = StartProcessFile(fileUpload, Head(timers))
    /\ processFileRuns' = IF validateFile(Head(timers))
                          THEN Append(processFileRuns, Run(Head(timers), "text"))
                          ELSE processFileRuns
    /\ timers' = Tail(timers)
    /\ UNCHANGED <<apiVars, clientVars, calculator, pending>>

\* handleReplace, from "Upload Different File" or from the X of the header
HandleReplace ==
    /\ \/ fileUpload.uploadState \in {"success", "error"}
       \/ fileUpload.selectedFile # "" /\ fileUpload.uploadState # "idle"
    /\ fileUpload' = Mounted
    /\ UNCHANGED <<apiVars, clientVars, processFileRuns, timers, calculator, pending>>

NextUpload ==
    \/ HandleFileSelect \/ FileRead \/ UploadSettled
    \/ HandleRetry \/ RetryTimeout \/ HandleReplace

\* one FileUpload on a page, and a user who selects files and clicks its buttons
SpecUpload == InitUpload /\ [][NextUpload]_vars

(***************************************************************************)
(* The Calculator component (src/src/components/Calculator/Calculator.tsx). *)
(* calculator holds its state hooks.  pending counts what it waits for: the *)
(* GET /api/config requests of loadConfiguration, the PUT /api/config       *)
(* requests of saveConfiguration, and the processFile runs of the           *)
(* FileUpload it renders, which end in onResults or in onError whether or   *)
(* not FileUpload is still on the page.  userConfig is "stored" (what the   *)
(* API returned), "defaults" (DEFAULT_CONFIGURATION) or "edited".           *)
(***************************************************************************)
AppError(type) == [type |-> type, canRetry |-> TRUE]

\* how fetch('/api/config') and response.json() settle
LoadOutcomes == {"success", "unsuccessful", "thrown"}

\* a loadConfiguration whose catch block is missing
LoadSettledWithoutCatch(calc, outcome) ==
    CASE outcome = "success" ->
            [calc EXCEPT !.userConfig = <<"stored">>, !.appState = "ready"]
      [] outcome = "unsuccessful" ->
            [calc EXCEPT !.userConfig = <<"defaults">>, !.appState = "ready"]
      [] OTHER -> calc

\* loadConfiguration after its awaits: the three ways the request settles
LoadSettled(calc, outcome) ==
    CASE outcome = "success" ->
            [calc EXCEPT !.userConfig = <<"stored">>, !.appState = "ready"]
      [] outcome = "unsuccessful" ->
            [calc EXCEPT !.userConfig = <<"defaults">>, !.appState = "ready"]
      [] OTHER ->
            [calc EXCEPT !.userConfig = <<"defaults">>, !.error = <<AppError("config")>>,
                         !.appState = "ready"]

\* {(appState === 'ready' || !calculationResults) && !showConfig && <FileUpload .../>}
FileUploadRendered(calc) ==
    /\ calc.appState \notin {"loading", "error"}
    /\ calc.appState = "ready" \/ calc.calculationResults = <<>>
    /\ ~calc.showConfig

\* {showConfig && userConfig && appState !== 'loading' && <ConfigurationPanel .../>}
ConfigurationPanelRendered(calc) ==
    calc.showConfig /\ calc.userConfig # <<>> /\ calc.appState # "loading"

\* the component after its mount effect: loadConfiguration() has sent its request
InitCalculator ==
    /\ upload = NoUpload
    /\ configurations = <<>>
    /\ dbAvailable = TRUE
    /\ isDevelopment = FALSE
    /\ call = NoCall
    /\ parsed = <<>>
    /\ response = NoResponse
    /\ NoClient
    /\ fileUpload = <<>>
    /\ processFileRuns = <<>>
    /\ timers = <<>>
    /\ calculator = [appState |-> "loading", userConfig |-> <<>>,
                     calculationResults |-> <<>>, error |-> <<>>, showConfig |-> FALSE]
    /\ pending = [loads |-> 1, saves |-> 0, uploads |-> 0]

\* loadConfiguration from `const result = await response.json()` on, or its catch
ConfigurationSettled ==
    /\ pending.loads > 0
    /\ \E outcome \in LoadOutcomes : calculator' = LoadSettled(calculator, outcome)
    /\ pending' = [pending EXCEPT !.loads = @ - 1]
    /\ UNCHANGED <<apiVars, clientVars, fileUpload, processFileRuns, timers>>

\* the user gives the rendered FileUpload a file that it starts to upload
FileSelected ==
    /\ FileUploadRendered(calculator)
    /\ pending.uploads < MaxRuns
    /\ pending' = [pending EXCEPT !.uploads = @ + 1]
    /\ UNCHANGED <<apiVars, clientVars, fileUpload, processFileRuns, timers, calculator>>

\* handleFileResults(results), the onResults of FileUpload
HandleFileResults ==
    /\ pending.uploads > 0
    /\ calculator' = [calculator EXCEPT !.calculationResults = <<"results">>,
                                        !.appState = "results", !.showConfig = FALSE]
    /\ pending' = [pending EXCEPT !.uploads = @ - 1]
    /\ UNCHANGED <<apiVars, clientVars, fileUpload, processFileRuns, timers>>

\* handleFileError(errorMessage), the onError of FileUpload
HandleFileError ==
    /\ pending.uploads > 0
    /\ calculator' = [calculator EXCEPT !.error = <<AppError("upload")>>,
                                        !.appState = "error"]
    /\ pending' = [pending EXCEPT !.uploads = @ - 1]
    /\ UNCHANGED <<apiVars, clientVars, fileUpload, processFileRuns, timers>>

\* "Try Again", rendered while error && appState === 'error' && error.canRetry:
\* handleRetry, whose case 'error' calls loadConfiguration()
TryAgain ==
    /\ calculator.appState = "error"
    /\ calculator.error # <<>> /\ calculator.error[1].canRetry
    /\ pending.loads < MaxRuns
    /\ calculator' = [calculator EXCEPT !.error = <<>>, !.appState = "loading"]
    /\ pending' = [pending EXCEPT !.loads = @ + 1]
    /\ UNCHANGED <<apiVars, clientVars, fileUpload, processFileRuns, timers>>

\* handleNewUpload, whose button the header shows in the results state
HandleNewUpload ==
    /\ calculator.appState = "results"
    /\ calculator' = [calculator EXCEPT !.calculationResults = <<>>, !.error = <<>>,
                                        !.appState = "ready"]
    /\ UNCHANGED <<apiVars, clientVars, fileUpload, processFileRuns, timers, pending>>

\* onClick={() => setShowConfig(!showConfig)} of the header
ToggleConfig ==
    /\ calculator.appState # "loading"
    /\ calculator' = [calculator EXCEPT !.showConfig = ~@]
    /\ UNCHANGED <<apiVars, clientVars, fileUpload, processFileRuns, timers, pending>>

\* handleConfigChange(changes), the onConfigChange of ConfigurationPanel
HandleConfigChange ==
    /\ ConfigurationPanelRendered(calculator)
    /\ calculator' = [calculator EXCEPT !.userConfig = <<"edited">>]
    /\ UNCHANGED <<apiVars, clientVars, fileUpload, processFileRuns, timers, pending>>

\* saveConfiguration up to its await fetch(..., PUT), the onSave of ConfigurationPanel
SaveStarted ==
    /\ ConfigurationPanelRendered(calculator)
    /\ pending.saves < MaxRuns
    /\ calculator' = [calculator EXCEPT !.error = <<>>]
    /\ pending' = [pending EXCEPT !.saves = @ + 1]
    /\ UNCHANGED <<apiVars, clientVars, fileUpload, processFileRuns, timers>>

\* saveConfiguration after its awaits: the stored configuration, or the catch block
SaveSettled ==
    /\ pending.saves > 0
    /\ \E saved \in BOOLEAN :
          calculator' = IF saved
                        THEN [calculator EXCEPT !.userConfig = <<"stored">>]
                        ELSE [calculator EXCEPT !.error = <<AppError("config")>>]
    /\ pending' = [pending EXCEPT !.saves = @ - 1]
    /\ UNCHANGED <<apiVars, clientVars, fileUpload, processFileRuns, timers>>

NextCalculator ==
    \/ ConfigurationSettled \/ FileSelected \/ HandleFileResults \/ HandleFileError
    \/ TryAgain \/ HandleNewUpload \/ ToggleConfig \/ HandleConfigChange
    \/ SaveStarted \/ SaveSettled

\* The page from its mount on.  A request that has been sent settles: fetch resolves
\* or rejects, and the continuation of loadConfiguration then runs.
SpecCalculator ==
    InitCalculator /\ [][NextCalculator]_vars /\ WF_vars(ConfigurationSettled)

(***************************************************************************)
(* Properties                                                              *)
(***************************************************************************)
Answered  == response # NoResponse
Resp      == response[1]
Succeeded == Answered /\ Resp.success
Rooms     == Resp.data[1].results.rooms
Summary   == Resp.data[1].results.project
Config    == configResult.data[1]

HeaderValid == requiredColumns \subseteq upload.headers

\* the non-blank data rows of the upload, type-converted; row k is reported as k + 1
DataRows == [k \in 1..Len(DataLines(upload)) |-> ParseRow(DataLines(upload)[k][1])]

\* the handler parsed at least one data row under a complete header
ParsedRows == Answered /\ parsed # <<>> /\ HeaderValid /\ Len(DataRows) >= 1

ErrorsOn(k, field) ==
    \E j \in 1..Len(parsed[1].errors) :
        parsed[1].errors[j].row = k + 1 /\ parsed[1].errors[j].field = field

\* rows without any error are the accepted ones, and only they produce rooms
OnlyCleanRowsAccepted ==
    /\ Len(parsed[1].valid) =
         Cardinality({k \in 1..Len(DataRows) :
                         \A j \in 1..Len(parsed[1].errors) : parsed[1].errors[j].row # k + 1})
    /\ Succeeded =>
         /\ Len(Rooms) = Len(parsed[1].valid)
         /\ \A i \in 1..Len(Rooms) :
              /\ Rooms[i].room_id = parsed[1].valid[i].room_id
              /\ Rooms[i].room_sf = parsed[1].valid[i].room_sf
              /\ Rooms[i].timeline.complexity_factors =
                   [category |-> parsed[1].valid[i].water_category,
                    class    |-> parsed[1].valid[i].water_class]
    /\ ~Succeeded => Resp.data = <<>>

\* The fixed-point units lose nothing: every amount a percentage is taken of is a
\* multiple of 100 units.
UnitsExact ==
    Succeeded =>
        /\ \A i \in 1..Len(Rooms) :
              Rooms[i].costs.subtotal % 100 = 0 /\ Rooms[i].costs.total_room_cost % 100 = 0
        /\ Summary.total_cost % 100 = 0

\* C1 (as claimed): for every CSV with a valid header, whatever mix of valid and
\* invalid rows it holds (none valid included), the response carries a RoomResult
\* for exactly the rows validateCSVRow passes, the complete error list, and
\* skipped = number of rows with an error, so rooms + skipped = non-blank data rows.
C1_PartialSuccess ==
    (Answered /\ ReachesParse(upload) /\ HeaderValid /\ configResult.success) =>
        LET errs  == [k \in 1..Len(DataRows) |-> validateCSVRow(DataRows[k], k + 1)]
            clean == [k \in 1..Len(DataRows) |-> errs[k] = <<>>]
        IN  /\ Resp.data # <<>>
            /\ Rooms = SelectByFlag([k \in 1..Len(DataRows) |-> RoomResult(DataRows[k], Config)],
                                    clean)
            /\ Resp.data[1].errors = Flatten(errs)
            /\ Resp.data[1].skipped = Cardinality({k \in 1..Len(DataRows) : ~clean[k]})
            /\ Len(Rooms) + Resp.data[1].skipped = Len(DataRows)

\* C2 (as claimed): when every data row fails validation the result is a
\* ProjectSummary with room_count = 0 and total_cost = 0 and an error list as long
\* as the number of input rows, not a generic failure.
C2_EmptyBatch ==
    (ParsedRows /\ configResult.success /\ parsed[1].valid = <<>>) =>
        /\ Resp.data # <<>>
        /\ Summary.room_count = 0
        /\ Summary.total_cost = 0
        /\ Len(Resp.data[1].errors) = Len(DataRows)

C4_SavingsNonNegative ==
    Succeeded =>
        /\ Summary.labor_optimization.savings >= 0
        /\ Summary.optimized_total_cost = Summary.total_cost - Summary.labor_optimization.savings
        /\ Summary.optimized_total_cost <= Summary.total_cost

\* The bucket rule of the claim.  The rooms of a bucket share estimated_days, hence
\* (supervisor_cost depends on the days and the configuration only) they all carry the
\* same supervisor_cost + project_management, which is the bucket's one shared cost:
\* the bucket saves the cost of every room but its first.
BucketSavings(rooms) ==
    SumSeq([i \in 1..Len(rooms) |->
        IF \E j \in 1..(i - 1) :
              rooms[j].timeline.estimated_days = rooms[i].timeline.estimated_days
        THEN rooms[i].costs.labor.supervisor_cost + rooms[i].costs.labor.project_management
        ELSE 0])

\* C5 (as claimed): labor_optimization.savings follows the bucket rule, so a project
\* whose buckets all hold one room (a one-room project) has savings = 0.
C5_BucketRule ==
    Succeeded => Summary.labor_optimization.savings = BucketSavings(Rooms)

Permuted(s, p) == [i \in 1..Len(s) |-> s[p[i]]]

C7_TotalUnits ==
    Succeeded =>
        \A i \in 1..Len(Rooms) :
            LET e == Rooms[i].equipment
            IN  /\ {e.large_units, e.standard_units, e.air_movers, e.heaters,
                    e.air_scrubbers, e.injection_systems, e.generator_required,
                    e.total_units} \subseteq Nat
                /\ e.total_units = e.large_units + e.standard_units + e.air_movers
                                   + e.heaters + e.air_scrubbers + e.injection_systems

\* a room that needs a generator was sized
C7_Witness ==
    /\ Succeeded
    /\ \E i \in 1..Len(Rooms) :
          Rooms[i].equipment.generator_required = 1 /\ Rooms[i].equipment.heaters = 1

\* C8: cost_per_sqft is total_room_cost over room_sf, so cost_per_sqft x room_sf is
\* total_room_cost; the divisor is never zero, since every row that is calculated has
\* 50 <= room_sf <= 5000; and average_cost_per_sf is total_cost over the summed
\* room_sf, computed only for a project with rooms, where that sum is positive.
C8_CostPerSqft ==
    /\ ParsedRows =>
          \A i \in 1..Len(parsed[1].valid) :
              parsed[1].valid[i].room_sf >= 50 /\ parsed[1].valid[i].room_sf <= 5000
    /\ Succeeded =>
          /\ \A i \in 1..Len(Rooms) :
                /\ Rooms[i].room_sf >= 50 /\ Rooms[i].room_sf <= 5000
                /\ Rooms[i].costs.cost_per_sqft =
                      Quot(Rooms[i].costs.total_room_cost, Rooms[i].room_sf)
          /\ Len(Rooms) >= 1
          /\ Summary.average_cost_per_sf =
                Quot(Summary.total_cost, SumSeq([i \in 1..Len(Rooms) |-> Rooms[i].room_sf]))
          /\ Summary.average_cost_per_sf.den > 0
    /\ (Answered /\ ~Succeeded) => Resp.data = <<>>

\* rooms of the smallest and of a large size were costed in one project
C8_Witness ==
    /\ Succeeded
    /\ \E i, j \in 1..Len(Rooms) : Rooms[i].room_sf = 50 /\ Rooms[j].room_sf > 1500

InRange(v, lo, hi) == lo <= v /\ v <= hi

\* the range-checked fields of a type-converted row that are out of range
RangeViolations(row) ==
    {f \in {"water_category"} : ~InRange(row.water_category, 1, 3)}
    \cup {f \in {"water_class"} : ~InRange(row.water_class, 1, 4)}
    \cup {f \in {"room_sf"} : ~InRange(row.room_sf, 50, 5000)}
    \cup {f \in {"room_temp_f"} : ~InRange(row.room_temp_f, 60, 100)}
    \cup {f \in {"room_humidity"} : ~InRange(row.room_humidity, 20, 90)}

YesNoFields == <<"generator_needed", "ceiling_damage", "wall_damage">>

IsYesNo(text) == ToLowerCase(text) \in {"yes", "no"}

\* C11 (as claimed): generator_needed, ceiling_damage and wall_damage are read without
\* regard to case, and a row in which one of them is neither yes nor no is rejected
\* with a validation error naming the row and the field, not treated as No.
C11_YesNoCoerced ==
    ParsedRows =>
        /\ \A i \in 1..Len(parsed[1].valid) :
              \A j \in 1..Len(YesNoFields) : IsYesNo(parsed[1].valid[i][YesNoFields[j]])
        /\ \A k \in 1..Len(DataRows) :
              \A j \in 1..Len(YesNoFields) :
                  ~IsYesNo(DataRows[k][YesNoFields[j]]) => ErrorsOn(k, YesNoFields[j])
        /\ Succeeded =>
              \A i \in 1..Len(Rooms) :
                  Rooms[i].equipment.generator_required =
                      IF ToLowerCase(parsed[1].valid[i].generator_needed) = "yes" THEN 1 ELSE 0

\* C12: one threshold on water_category gates the contamination items: in every
\* RoomResult heaters, air_scrubbers, specialist_hours and the antimicrobial fee are
\* all positive when water_category >= 3 and all zero below it, so water_category = 1
\* gives antimicrobial = 0, heaters = 0 and air_scrubbers = 0.
C12_ContaminationGate ==
    Succeeded =>
        \A i \in 1..Len(Rooms) :
            LET r     == Rooms[i]
                cat   == r.timeline.complexity_factors.category
                gated == {r.equipment.heaters, r.equipment.air_scrubbers,
                          r.costs.labor.specialist_hours, r.costs.materials.antimicrobial}
            IN  /\ cat = parsed[1].valid[i].water_category
                /\ cat >= 3 => \A g \in gated : g > 0
                /\ cat < 3  => gated = {0}
                /\ cat = 1  => /\ r.costs.materials.antimicrobial = 0
                               /\ r.equipment.heaters = 0
                               /\ r.equipment.air_scrubbers = 0

\* a room of black water was sized and costed
C12_Witness ==
    /\ Succeeded
    /\ \E i \in 1..Len(Rooms) :
          /\ Rooms[i].timeline.complexity_factors.category = 3
          /\ Rooms[i].equipment.air_scrubbers = 1
          /\ Rooms[i].costs.materials.antimicrobial = Dollars(200)

\* C13: in every RoomResult air_movers = ceil(room_sf / 400), and one room_sf
\* breakpoint (1500) chooses the dehumidifier class: exactly one of large_units and
\* standard_units is positive, the other is 0.
C13_AirMoversAndDehumidifierClass ==
    Succeeded =>
        \A i \in 1..Len(Rooms) :
            LET e  == Rooms[i].equipment
                sf == Rooms[i].room_sf
            IN  /\ e.air_movers * 400 >= sf
                /\ (e.air_movers - 1) * 400 < sf
                /\ \/ e.large_units > 0 /\ e.standard_units = 0
                   \/ e.large_units = 0 /\ e.standard_units > 0
                /\ e.large_units > 0 <=> sf > 1500

\* a room just above the breakpoint was sized
C13_Witness ==
    /\ Succeeded
    /\ \E i \in 1..Len(Rooms) :
          /\ Rooms[i].room_sf = 1501
          /\ Rooms[i].equipment.large_units = 1
          /\ Rooms[i].equipment.air_movers = 4

\* C14: for every water_class in 1..4 the timeline of the RoomResult has base_days = 3
\* and estimated_days = ceil(base_days x class_multiplier), with the class_multiplier
\* of the same result (in tenths), and class_multiplier does not decrease with
\* water_class.
C14_Timeline ==
    Succeeded =>
        \A i \in 1..Len(Rooms) :
            LET t   == Rooms[i].timeline
                row == parsed[1].valid[i]
            IN  /\ t.complexity_factors.class = row.water_class
                /\ row.water_class \in 1..4
                /\ t.base_days = 3
                /\ t.estimated_days * 10 >= t.base_days * t.class_multiplier
                /\ (t.estimated_days - 1) * 10 < t.base_days * t.class_multiplier
                /\ \A c \in 1..4 :
                      LET m == Timeline([row EXCEPT !.water_class = c]).class_multiplier
                      IN  /\ c <= row.water_class => m <= t.class_multiplier
                          /\ c >= row.water_class => m >= t.class_multiplier

\* a room of water class 3 was given its timeline
C14_Witness ==
    /\ Succeeded
    /\ \E i \in 1..Len(Rooms) :
          /\ Rooms[i].timeline.complexity_factors.class = 3
          /\ Rooms[i].timeline.class_multiplier = 16
          /\ Rooms[i].timeline.estimated_days = 5

\* the 39 names of the material library
MaterialLibraryNames ==
    {"drywall", "gypsum", "gypsum board", "gypsum wallboard", "wallboard",
     "hardwood", "hardwood floors", "wood", "paneling", "wood paneling",
     "vinyl", "vinyl sheet", "vct", "carpet", "carpet cushion", "carpet pad",
     "engineered", "engineered wood", "engineered floors", "laminate",
     "bamboo", "cork", "parquet", "tile", "stone", "granite", "slate",
     "engineered marble", "concrete", "insulation", "fiberglass", "mineral wool",
     "cellulose", "plywood", "osb", "particleboard", "mdf", "brick", "wallpaper"}

Defined(specs) == specs.thickness > 0 /\ specs.cost > 0 /\ specs.target_mc > 0

\* C15: the room calculation does not fail for a validated row: whatever the floor,
\* wall and ceiling material names are (an empty name and a name outside the library
\* included) every accepted row gets a RoomResult, the response reports no error, and
\* the material_specs of its three surfaces are defined (positive thickness, cost and
\* target_mc) and do not depend on the name.
C15_MaterialFallback ==
    (ParsedRows /\ configResult.success /\ parsed[1].valid # <<>>) =>
        /\ Succeeded
        /\ Resp.status = 200 /\ Resp.error = ""
        /\ Len(Rooms) = Len(parsed[1].valid)
        /\ \A i \in 1..Len(Rooms) :
              LET m   == Rooms[i].materials
                  row == parsed[1].valid[i]
              IN  /\ m.floor.material_type = row.floor_materials
                  /\ m.wall.material_type = row.wall_materials
                  /\ m.ceiling.material_type = row.ceiling_materials
                  /\ Defined(m.floor.material_specs)
                  /\ Defined(m.wall.material_specs)
                  /\ Defined(m.ceiling.material_specs)
                  /\ LET known == Materials([row EXCEPT !.floor_materials = "hardwood",
                                                        !.wall_materials = "drywall",
                                                        !.ceiling_materials = "drywall"])
                     IN  /\ m.floor.material_specs = known.floor.material_specs
                         /\ m.wall.material_specs = known.wall.material_specs
                         /\ m.ceiling.material_specs = known.ceiling.material_specs

\* a room with a floor material outside the library and no wall material was calculated
C15_Witness ==
    /\ Succeeded
    /\ \E i \in 1..Len(Rooms) :
          /\ Rooms[i].materials.floor.material_type \notin MaterialLibraryNames \cup {""}
          /\ Rooms[i].materials.wall.material_type = ""

\* the published range of every parameter (src/README.md, "Configuration Parameters")
PublishedRanges ==
    [tech_base |-> <<25, 150>>, supervisor_base |-> <<35, 200>>,
     specialist_base |-> <<75, 300>>, project_management_base |-> <<100, 500>>,
     large_dehumidifier_daily |-> <<15, 50>>, standard_dehumidifier_daily |-> <<8, 30>>,
     air_mover_daily |-> <<4, 15>>, heater_daily |-> <<6, 25>>,
     air_scrubber_daily |-> <<20, 75>>, injection_system_daily |-> <<15, 50>>,
     generator_daily |-> <<25, 100>>,
     hardwood_target_mc |-> <<6, 12>>, paneling_target_mc |-> <<8, 15>>,
     vinyl_target_mc |-> <<1, 5>>, drywall_target_mc |-> <<10, 18>>,
     carpet_target_mc |-> <<3, 8>>]

\* a value is within its published range: a number between the limits
Published(f, v) ==
    v # NotANumber /\ InRange(v, PublishedRanges[f][1], PublishedRanges[f][2])

WithinPublishedRanges(cfg) == \A f \in ConfigFields : Published(f, cfg[f])

\* the calculation of the upload was reached with a configuration
Calculated ==
    /\ Answered
    /\ call.handler = "csvProcess"
    /\ parsed # <<>> /\ parsed[1].valid # <<>>
    /\ configResult.success

\* C16 (as claimed): a configuration with a value outside its published range that
\* reaches the calculation yields no estimate but a distinct configuration-out-of-range
\* fault.
C16_OutOfRangeFault ==
    (Calculated /\ ~WithinPublishedRanges(Config)) =>
        /\ ~Succeeded
        /\ Resp.data = <<>>
        /\ Resp.error = "Configuration out of range"

\* C17 (as claimed): POST /api/csv/process leaves the table of stored configurations,
\* rows and values, exactly as it was before the request.
C17_ConfigurationsUntouched ==
    [][PostCsvProcess => configurations' = configurations]_vars

\* C17 (amended): POST /api/csv/process changes no stored row and removes none; the
\* one change it can make is that getConfiguration adds the user's "default"
\* configuration, with the default values, when the user has none.
C17_OnlyDefaultCreated ==
    [][PostCsvProcess =>
          \/ configurations' = configurations
          \/ /\ SelectConfig(configurations, upload'.userId, "default") = {}
             /\ configurations' =
                   Append(configurations,
                          Row(Len(configurations) + 1, upload'.userId, "default",
                              DEFAULT_CONFIGURATION))]_vars

\* a calculation run of a user without a configuration left the other user's row as it
\* was and added the default row
C17_Witness ==
    /\ Succeeded
    /\ Len(configurations) = 2
    /\ configurations[1] = Row(1, "user-2", "default", HighRates)
    /\ configurations[2] = Row(2, "user-1", "default", DEFAULT_CONFIGURATION)

\* a request body sets a parameter to a value outside its published range
BodyOutOfRange(configData) ==
    \E f \in ConfigFields \cap DOMAIN configData : ~Published(f, configData[f])

\* C18 (as claimed): from an empty table, whatever saveConfiguration and
\* getConfiguration calls are made, every stored configuration has each of its 16
\* parameters within the published range, and a save with an out-of-range value is
\* rejected with VALIDATION_FAILED.
C18_StoredWithinRanges ==
    /\ \A i \in 1..Len(configurations) : WithinPublishedRanges(configurations[i])
    /\ (call.handler = "putConfig" /\ call.user # <<>> /\ BodyOutOfRange(call.body[1]))
          => call.code = "VALIDATION_FAILED"

\* the routes the gate lets through without a token
Exempt(path) == path = "/api/health" \/ (isDevelopment /\ path = "/api/debug/auth")

\* validateToken succeeds for the Bearer token of the header
TokenValidated(authHeader) ==
    /\ BearerToken(authHeader) # <<>>
    /\ validateToken(BearerToken(authHeader)[1]).success

\* C19: for a request to an /api route other than /api/health (and, in development,
\* /api/debug/auth) the route handler runs only after validateToken has succeeded for
\* the Bearer token of the request; with a missing or malformed header or a token
\* that fails validation no handler runs, no user is set on the context and the
\* answer is 401; the user that is set is the one of the token.
C19_AuthGate ==
    call # NoCall =>
        /\ (call.handler # "" /\ ~Exempt(call.path)) => TokenValidated(call.authorization)
        /\ call.user # <<>> =>
              /\ TokenValidated(call.authorization)
              /\ call.user =
                   <<validateToken(BearerToken(call.authorization)[1]).data[1].user_id>>
        /\ (~Exempt(call.path) /\ ~TokenValidated(call.authorization)) =>
              /\ call.handler = ""
              /\ call.user = <<>>
              /\ call.status = 401
        /\ (call.path = "/api/csv/process" /\ ~TokenValidated(call.authorization)) =>
              /\ upload.userId = ""
              /\ parsed = <<>>
              /\ Resp.status = 401 /\ Resp.data = <<>>

\* a request to a protected route with an expired token was turned away
C19_Witness ==
    /\ call.path = "/api/config"
    /\ call.authorization = "Bearer jwt-expired"
    /\ call.handler = ""
    /\ call.status = 401

RECURSIVE SumOf(_, _)
\* x[1] + ... + x[n]
SumOf(x, n) == IF n = 0 THEN 0 ELSE x[n] + SumOf(x, n - 1)

\* C20: the project totals are aggregates of the rooms of the response: total_cost is
\* the sum of total_room_cost, total_affected_sf the sum of room_sf,
\* total_equipment_units the sum of total_units, longest_timeline the largest
\* estimated_days, average_cost_per_sf is total_cost over total_affected_sf,
\* room_count the number of rooms, and every fleet_requirements field the sum of the
\* matching equipment count.
C20_ProjectTotals ==
    Succeeded =>
        LET n == Len(Rooms)
            Total(F(_)) == SumOf([i \in 1..n |-> F(Rooms[i])], n)
            Cost(r)  == r.costs.total_room_cost
            Sf(r)    == r.room_sf
            Units(r) == r.equipment.total_units
            Large(r) == r.equipment.large_units
            Standard(r) == r.equipment.standard_units
            Movers(r)   == r.equipment.air_movers
            Heaters(r)  == r.equipment.heaters
            Scrubbers(r) == r.equipment.air_scrubbers
            Injection(r) == r.equipment.injection_systems
            Generators(r) == r.equipment.generator_required
            fleet == Summary.fleet_requirements
        IN  /\ Summary.room_count = n
            /\ Summary.total_cost = Total(Cost)
            /\ Summary.total_affected_sf = Total(Sf)
            /\ Summary.total_equipment_units = Total(Units)
            /\ \A i \in 1..n : Rooms[i].timeline.estimated_days <= Summary.longest_timeline
            /\ \E i \in 1..n : Rooms[i].timeline.estimated_days = Summary.longest_timeline
            /\ Summary.average_cost_per_sf =
                  Quot(Summary.total_cost, Summary.total_affected_sf)
            /\ fleet.large_dehumidifiers = Total(Large)
            /\ fleet.standard_dehumidifiers = Total(Standard)
            /\ fleet.air_movers = Total(Movers)
            /\ fleet.heaters = Total(Heaters)
            /\ fleet.air_scrubbers = Total(Scrubbers)
            /\ fleet.injection_systems = Total(Injection)
            /\ fleet.generators = Total(Generators)
            /\ fleet.total_equipment_units = Total(Units)

\* three rooms, one with heaters and a generator, one large, were aggregated
C20_Witness ==
    /\ Succeeded
    /\ Len(Rooms) = 3
    /\ Summary.fleet_requirements.generators = 1
    /\ Summary.fleet_requirements.large_dehumidifiers = 1
    /\ Summary.fleet_requirements.standard_dehumidifiers = 2

\* the seven equipment counts of a room
EquipmentCounts(e) ==
    <<e.large_units, e.standard_units, e.air_movers, e.heaters, e.air_scrubbers,
      e.injection_systems, e.generator_required>>

\* C21 (as claimed): the electrical figures derive from the equipment.  A room's
\* total_amperage is a sum of count x draw over the equipment types, so a room with at
\* least as many units of every type as another room and more of one type draws more;
\* peak_amperage is the largest total_amperage of the rooms; the circuit counts are
\* sums and total_kwh_project is the sum of daily_kwh x estimated_days.
C21_ElectricalFromEquipment ==
    Succeeded =>
        LET n  == Len(Rooms)
            es == Summary.electrical_summary
            Total(F(_)) == SumOf([i \in 1..n |-> F(Rooms[i])], n)
            Amps(r)    == r.electrical.total_amperage
            Circ20(r)  == r.electrical.circuits_20a_required
            Circ15(r)  == r.electrical.circuits_15a_required
            KwhDays(r) == r.electrical.daily_kwh * r.timeline.estimated_days
            AtLeast(a, b) == \A k \in 1..7 : EquipmentCounts(a)[k] >= EquipmentCounts(b)[k]
        IN  /\ \A i, j \in 1..n :
                  (AtLeast(Rooms[i].equipment, Rooms[j].equipment)
                   /\ EquipmentCounts(Rooms[i].equipment) # EquipmentCounts(Rooms[j].equipment))
                  => Amps(Rooms[i]) > Amps(Rooms[j])
            /\ \A i \in 1..n : Amps(Rooms[i]) <= es.peak_amperage
            /\ \E i \in 1..n : Amps(Rooms[i]) = es.peak_amperage
            /\ es.total_circuits_20a = Total(Circ20)
            /\ es.total_circuits_15a = Total(Circ15)
            /\ es.total_kwh_project = Total(KwhDays)

\* the estimated_days values of the rooms: one optimization bucket each
Timelines(rooms) == {rooms[i].timeline.estimated_days : i \in 1..Len(rooms)}

\* C22 (as claimed): labor_optimization.details holds exactly one entry per bucket of
\* rooms sharing an estimated_days value, with that timeline, its room_count and
\* savings = original_cost - optimized_cost, and the entries' savings add up to
\* labor_optimization.savings.
C22_OptimizationDetails ==
    Succeeded =>
        LET lo == Summary.labor_optimization
            d  == lo.details
        IN  /\ Len(d) = Cardinality(Timelines(Rooms))
            /\ \A t \in Timelines(Rooms) :
                  \E k \in 1..Len(d) :
                      /\ d[k].timeline = t
                      /\ d[k].room_count =
                            Cardinality({i \in 1..Len(Rooms) :
                                            Rooms[i].timeline.estimated_days = t})
                      /\ d[k].savings = d[k].original_cost - d[k].optimized_cost
            /\ SumOf([k \in 1..Len(d) |-> d[k].savings], Len(d)) = lo.savings

\* the hardwood family of the material library
HardwoodFamily == {"hardwood", "hardwood floors", "wood"}

\* C23 (as claimed): injection_systems is 1 exactly when the floor material belongs
\* to the hardwood family and floor damage is present (floor_damage_sf > 0), and 0 in
\* every other case.
C23_InjectionSystems ==
    Succeeded =>
        \A i \in 1..Len(Rooms) :
            LET row == parsed[1].valid[i]
            IN  Rooms[i].equipment.injection_systems =
                    IF ToLowerCase(row.floor_materials) \in HardwoodFamily
                       /\ row.floor_damage_sf > 0
                    THEN 1 ELSE 0

\* the seven configured daily rates, in the order of EquipmentCounts
DailyRates(cfg) ==
    <<cfg.large_dehumidifier_daily, cfg.standard_dehumidifier_daily, cfg.air_mover_daily,
      cfg.heater_daily, cfg.air_scrubber_daily, cfg.injection_system_daily,
      cfg.generator_daily>>

\* C24: in every RoomResult daily_cost is the sum over the seven equipment types, the
\* generator included, of count x configured daily rate; total_equipment is daily_cost
\* x timeline.estimated_days; and costs.equipment.total_days equals
\* timeline.estimated_days of the same room.
C24_EquipmentCost ==
    Succeeded =>
        \A i \in 1..Len(Rooms) :
            LET r == Rooms[i]
                c == r.costs.equipment
                perType == [k \in 1..7 |->
                              EquipmentCounts(r.equipment)[k] * DailyRates(Config)[k]]
            IN  /\ c.daily_cost = Dollars(SumOf(perType, 7))
                /\ c.total_days = r.timeline.estimated_days
                /\ c.total_equipment = c.daily_cost * r.timeline.estimated_days

\* a large room of black water with a generator was costed at the highest rates over
\* six days: 1 x 50 + 4 x 15 + 25 + 75 + 100 a day
C24_Witness ==
    /\ Succeeded
    /\ Config.generator_daily = 100
    /\ \E i \in 1..Len(Rooms) :
          /\ Rooms[i].equipment.generator_required = 1
          /\ Rooms[i].equipment.large_units = 1
          /\ Rooms[i].costs.equipment.daily_cost = Dollars(310)
          /\ Rooms[i].costs.equipment.total_days = 6
          /\ Rooms[i].costs.equipment.total_equipment = Dollars(1860)

\* affected_sqft x cost per sqft; material_specs.cost is in cents
TreatmentAt(surface) ==
    surface.affected_sqft * surface.material_specs.cost * (Dollars(1) \div 100)

\* C25 (as claimed): for each surface (floor, wall, ceiling) of every RoomResult the
\* treatment cost equals the surface's reported affected_sqft times the cost per sqft
\* of the material_specs reported for that surface, and total_materials is the sum of
\* the three treatments, disposal and antimicrobial.
C25_TreatmentCosts ==
    Succeeded =>
        \A i \in 1..Len(Rooms) :
            LET m == Rooms[i].materials
                c == Rooms[i].costs.materials
            IN  /\ c.floor_treatment = TreatmentAt(m.floor)
                /\ c.wall_treatment = TreatmentAt(m.wall)
                /\ c.ceiling_treatment = TreatmentAt(m.ceiling)
                /\ c.total_materials = c.floor_treatment + c.wall_treatment
                                       + c.ceiling_treatment + c.disposal + c.antimicrobial

\* moisture readings a valid row may hold, in hundredths
MoistureReadings == {0, 5, 35, 95}

\* C26: wall moisture is reporting-only.  moisture_weighted is 0.5 x bottom + 0.3 x
\* middle + 0.2 x top, which lies between the smallest and the largest of the three
\* readings, and a valid row that differs from an accepted row only in a moisture
\* reading yields the same equipment, costs, timeline and electrical results.
C26_MoistureReportingOnly ==
    Succeeded =>
        \A i \in 1..Len(Rooms) :
            LET row == parsed[1].valid[i]
                w   == Rooms[i].materials.wall.moisture_weighted
                readings == {row.wall_damage_moisture_bottom,
                             row.wall_damage_moisture_middle,
                             row.wall_damage_moisture_top}
            IN  /\ 2 * w = 10 * row.wall_damage_moisture_bottom
                           + 6 * row.wall_damage_moisture_middle
                           + 4 * row.wall_damage_moisture_top
                /\ \E lo \in readings : lo * 10 <= w
                /\ \E hi \in readings : w <= hi * 10
                /\ \A k \in 1..Len(moistureFields), v \in MoistureReadings :
                      LET other == [row EXCEPT ![moistureFields[k]] = v]
                          res   == RoomResult(other, Config)
                      IN  /\ validateCSVRow(other, i) = <<>>
                          /\ res.equipment = Rooms[i].equipment
                          /\ res.costs = Rooms[i].costs
                          /\ res.timeline = Rooms[i].timeline
                          /\ res.electrical = Rooms[i].electrical

\* a room whose wall readings are 95%, 25% and 15% was calculated: 0.58 weighted
C26_Witness ==
    /\ Succeeded
    /\ \E i \in 1..Len(Rooms) :
          /\ parsed[1].valid[i].wall_damage_moisture_bottom = 95
          /\ parsed[1].valid[i].wall_damage_moisture_top = 15
          /\ Rooms[i].materials.wall.moisture_weighted = 580

\* UNIQUE(user_id, config_name) over the rows that are not deleted
UniqueNames(table) ==
    \A i, j \in 1..Len(table) :
        (table[i].user_id # "" /\ table[i].user_id = table[j].user_id
         /\ table[i].config_name = table[j].config_name) => i = j

\* C27 (as claimed): getConfiguration(userId, configName) with a non-empty userId and
\* a working database returns success with the configuration of that name, creating
\* the default when none exists, in every interleaving of concurrent getConfiguration
\* calls; and at most one row per (user_id, config_name) ever exists.
C27_GetConfigurationSucceeds ==
    /\ dbAvailable =>
          \A p \in DOMAIN callers :
              callers[p].pc = "returned" =>
                  LET r == callers[p].result[1]
                  IN  /\ r.success
                      /\ r.data # <<>>
                      /\ r.data[1].user_id = callers[p].userId
                      /\ r.data[1].config_name = callers[p].configName
    /\ UniqueNames(configurations)

\* the call names a row that another user owns
Foreign(c) ==
    /\ c.configId \in 1..Len(c.before)
    /\ c.before[c.configId].user_id \notin {"", c.userId}

\* what a call leaves alone: the rows of the other users, and the id and the user_id
\* of every row it does not delete
OthersUntouched(c, table) ==
    /\ Len(table) >= Len(c.before)
    /\ \A i \in 1..Len(c.before) :
          /\ c.before[i].user_id # c.userId => table[i] = c.before[i]
          /\ table[i].id = c.before[i].id
          /\ table[i].user_id = c.before[i].user_id \/ table[i] = Deleted(i)
    /\ \A i \in 1..Len(table) : table[i].id = i
    /\ \A i \in (Len(c.before) + 1)..Len(table) : table[i].user_id = c.userId

\* a call returns no row of another user
OwnDataOnly(c) ==
    (c.result.data # <<>> /\ c.operation # "deleteConfiguration")
        => c.result.data[1].user_id = c.userId

\* C28 (as claimed): a getConfigurationById, saveConfiguration or deleteConfiguration
\* call made with userId A never returns, modifies or deletes a row whose user_id is
\* B # A and reports CONFIG_NOT_FOUND instead, and no operation changes a row's id or
\* user_id.
C28_IsolationNotFound ==
    dbCall # NoDbCall =>
        /\ OwnDataOnly(dbCall)
        /\ OthersUntouched(dbCall, configurations)
        /\ Foreign(dbCall) =>
              /\ ~dbCall.result.success
              /\ dbCall.result.code = "CONFIG_NOT_FOUND"

\* C28 (amended): such a call never returns, modifies or deletes a row of another
\* user and never changes a row's id or user_id; a call that names a row of another
\* user fails without data, with CONFIG_NOT_FOUND unless saveConfiguration has
\* rejected its body first (VALIDATION_FAILED).
C28_Isolation ==
    dbCall # NoDbCall =>
        /\ OwnDataOnly(dbCall)
        /\ OthersUntouched(dbCall, configurations)
        /\ Foreign(dbCall) =>
              /\ ~dbCall.result.success
              /\ dbCall.result.data = <<>>
              /\ configurations = dbCall.before
              /\ IF dbCall.operation = "saveConfiguration"
                    /\ validateConfigurationData(dbCall.body[1]) # {}
                 THEN dbCall.result.code = "VALIDATION_FAILED"
                 ELSE dbCall.result.code = "CONFIG_NOT_FOUND"

\* user-2 tried to overwrite the row of user-1 with a valid body and was told that
\* there is no such row
C28_Witness ==
    /\ dbCall.operation = "saveConfiguration"
    /\ dbCall.userId = "user-2"
    /\ Foreign(dbCall)
    /\ validateConfigurationData(dbCall.body[1]) = {}
    /\ dbCall.result.code = "CONFIG_NOT_FOUND"
    /\ configurations = dbCall.before

\* C29 (as claimed): in the FileUpload component at most one processFile run is in
\* progress at any time (selecting or dropping a file or clicking Retry while a run
\* validates, uploads or processes starts no second run), and at most 3 retries are
\* started per selected file.
C29_SingleRun ==
    fileUpload # <<>> =>
        /\ Len(processFileRuns) <= 1
        /\ fileUpload.retryCount <= RETRY_ATTEMPTS

\* the start-up has completed: the page is ready with a stored or a default configuration
Ready ==
    /\ calculator.appState = "ready"
    /\ calculator.userConfig \in {<<"stored">>, <<"defaults">>}

\* C30: the start-up of Calculator always completes.  Whenever a configuration
\* request settles (success, unsuccessful response or thrown error) appState becomes
\* 'ready' with a non-null userConfig, the stored one or the defaults; a page that is
\* loading gets there; and in every reachable state appState = 'results' implies that
\* calculationResults is non-null.
C30_StartupCompletes ==
    /\ [][ConfigurationSettled => Ready']_vars
    /\ (calculator.appState = "loading") ~> Ready
    /\ [](calculator.appState = "results" => calculator.calculationResults # <<>>)
    /\ [](calculator.appState # "loading" => calculator.userConfig # <<>>)

\* the request threw: the page is ready with the defaults and tells so
C30_Witness ==
    /\ Ready
    /\ calculator.userConfig = <<"defaults">>
    /\ calculator.error = <<AppError("config")>>
    /\ pending.loads = 0
====
